---- MODULE Spec2Model ----
(***************************************************************************)
(* School management backend: the fee lifecycle engine (Fee schema and its *)
(* pre-save hook, fee.controller.js) and the bulk import pipeline          *)
(* (uploadStudents / uploadTeachers / uploadAdminStaff /                   *)
(* uploadSupportStaff in dashboard.controller.js).                         *)
(***************************************************************************)
EXTENDS Integers, Sequences, FiniteSets, TLC

VARIABLES
    now,        \* the server clock (a tick, see DayPos)
    fees,       \* the Fee collection: a set of fee documents
    feeSeq,     \* number of Fee documents created so far (next _id - 1)
    students,   \* the Student collection
    hook,       \* what the last run of FeeSchema.pre('save') saw and did
    out,        \* the result of the last operation (response / return value)
    imp,        \* the import requests: position in the handler and its locals
    users,      \* the User collection (accounts)
    staff,      \* the Teacher, AdminStaff and SupportStaff collections
    history,    \* the UploadHistory collection, in order of creation
    files,      \* the requests whose uploaded file is in temporary storage
    proc,       \* the Node process: "up" or "down"
    salaries    \* the Salary collection

vars == <<now, fees, feeSeq, students, hook, out, imp, users, staff, history, files, proc,
          salaries>>

importVars == <<imp, users, staff, history, files, proc>>

(***************************************************************************)
(* Bounds of the model.                                                    *)
(***************************************************************************)
MaxFees == 2        \* Fee documents ever created
MaxMonths == 2      \* calendar months the clock runs through
MaxTicks == 3       \* clock steps in the life of one fee document
MaxRows == 2        \* rows the parser emits for one uploaded file
MaxTeachers == 9    \* teacher profiles stored before an upload
MaxLineLen == 5     \* characters of a CSV line
MaxHeaderLen == 4   \* characters of a header cell

(***************************************************************************)
(* Absent values: a field the request body does not carry, a Date that is  *)
(* not set.                                                                *)
(***************************************************************************)
NA == 0 - 1
NoDate == 0 - 1
NoStatus == "NA"

\* The value of a paymentDate that is set.  The code stores Date.now() and only
\* ever tests the field for presence (paymentDate || Date.now()).
SomeDate == NoDate + 1

(***************************************************************************)
(* Time.  A tick is month * PosPerMonth + position; the positions of a     *)
(* month that the code's Date arithmetic distinguishes are its first day   *)
(* at 00:00 (new Date(y, m, 1)), its last day at 00:00 (new Date(y, m+1,   *)
(* 0)) and its last day at 12:00.                                          *)
(***************************************************************************)
DayPos == <<"firstDay0000", "lastDay0000", "lastDay1200">>
PosPerMonth == Len(DayPos)

CutoverYear == 2025
CutoverMonthIndex == 4
CutoverMonth == CutoverYear * 12 + CutoverMonthIndex   \* May 2025
FirstMonth == CutoverMonth - 1                         \* April 2025

Month(t) == t \div PosPerMonth
StartOfMonth(t) == Month(t) * PosPerMonth
EndOfMonth(t) == Month(t) * PosPerMonth + (PosPerMonth - 2)

(***************************************************************************)
(* Input domains.                                                          *)
(***************************************************************************)
StudentIds == {"s1", "s2"}
Staff == {"admin1"}
Statuses == {"paid", "unpaid", "partial", "overdue"}

(***************************************************************************)
(* Fee documents (FeeSchema) and the pre-save hook.                        *)
(***************************************************************************)
\* new Fee(data): the schema defaults fill what data does not carry
NewFee(id, data) ==
    [id |-> id,
     student |-> data.student,
     feeType |-> data.feeType,
     amount |-> data.amount,
     dueDate |-> data.dueDate,
     paymentDate |-> NoDate,
     status |-> IF data.status = NoStatus THEN "unpaid" ELSE data.status,
     paidAmount |-> IF data.paidAmount = NA THEN 0 ELSE data.paidAmount,
     remainingAmount |-> data.amount,
     arrears |-> IF data.arrears = NA THEN 0 ELSE data.arrears,
     recordedBy |-> data.recordedBy]

\* the paths of a new document that isModified() reports: the ones data set
NewFeeModified(data) ==
    {"student", "feeType", "amount", "dueDate", "recordedBy"}
        \cup (IF data.status = NoStatus THEN {} ELSE {"status"})
        \cup (IF data.paidAmount = NA THEN {} ELSE {"paidAmount"})
        \cup (IF data.arrears = NA THEN {} ELSE {"arrears"})

\* isModified('status') && status === 'paid'
ExplicitPaid(doc, mod) == "status" \in mod /\ doc.status = "paid"

\* this.paidAmount = this.amount marks paidAmount modified when the document
\* is new or the value differs from the stored one
PaidModified(doc, mod, isNew) ==
    \/ "paidAmount" \in mod
    \/ ExplicitPaid(doc, mod) /\ (isNew \/ doc.paidAmount # doc.amount)

\* a full payment taken for a partial one
StatusOfPaymentOffByOne(paidAmount, amount) ==
    IF paidAmount = 0 THEN "unpaid"
    ELSE IF paidAmount <= amount THEN "partial"
    ELSE "paid"

StatusOfPayment(paidAmount, amount) ==
    IF paidAmount = 0 THEN "unpaid"
    ELSE IF paidAmount < amount THEN "partial"
    ELSE "paid"

\* the hook up to the overdue check
HookDerive(doc, mod, isNew, t) ==
    LET d1 == IF ExplicitPaid(doc, mod)
              THEN [doc EXCEPT !.paidAmount = doc.amount,
                               !.remainingAmount = 0,
                               !.paymentDate = IF @ # NoDate THEN @ ELSE SomeDate]
              ELSE doc
        st == StatusOfPayment(d1.paidAmount, d1.amount)
    IN  IF PaidModified(doc, mod, isNew)
        THEN [d1 EXCEPT !.remainingAmount = d1.amount - d1.paidAmount,
                        !.status = st,
                        !.paymentDate = IF st = "paid" /\ @ = NoDate THEN SomeDate ELSE @]
        ELSE d1

\* the overdue check taking a fee that is due at this very instant for past due
HookOverdueAtDueDate(doc, t) ==
    IF doc.status # "paid" /\ doc.dueDate <= t /\ doc.status # "overdue"
    THEN [doc EXCEPT !.status = "overdue"]
    ELSE doc

\* the overdue check
HookOverdue(doc, t) ==
    IF doc.status # "paid" /\ doc.dueDate < t /\ doc.status # "overdue"
    THEN [doc EXCEPT !.status = "overdue"]
    ELSE doc

PreSave(doc, mod, isNew, t) == HookOverdue(HookDerive(doc, mod, isNew, t), t)

\* what one run of the hook saw: statusPaidSet says the caller's data carried
\* status 'paid'
HookTrace(doc, mod, isNew, statusPaidSet, t) ==
    [id |-> doc.id,
     modPaid |-> "paidAmount" \in mod,
     statusPaidSet |-> statusPaidSet,
     midStatus |-> HookDerive(doc, mod, isNew, t).status]

NoHook == [id |-> 0]
NoOut == [op |-> "none"]

(***************************************************************************)
(* calculateStudentArrears                                                 *)
(***************************************************************************)
RECURSIVE SumArrears(_)
SumArrears(S) ==
    IF S = {} THEN 0
    ELSE LET f == CHOOSE x \in S : TRUE
         IN  (IF f.status = "partial" THEN f.remainingAmount ELSE f.amount)
                 + SumArrears(S \ {f})

\* a variant of the date filter that takes the first instant of the current month in
PreviousFeesThroughFirstDay(fs, studentId, t) ==
    {f \in fs : /\ f.student = studentId
                /\ f.dueDate <= StartOfMonth(t)
                /\ f.status \in {"unpaid", "partial", "overdue"}}

PreviousFees(fs, studentId, t) ==
    {f \in fs : /\ f.student = studentId
                /\ f.dueDate < StartOfMonth(t)
                /\ f.status \in {"unpaid", "partial", "overdue"}}

calculateStudentArrears(fs, studentId, t, findOk) ==
    IF Month(t) = CutoverMonth THEN 0
    ELSE IF ~findOk THEN 0
    ELSE SumArrears(PreviousFees(fs, studentId, t))

(***************************************************************************)
(* Fee.findOne({student, feeType, dueDate: {$gte: startOfMonth,            *)
(* $lte: endOfMonth}}) and Fee.findByIdAndUpdate / Fee.create              *)
(***************************************************************************)
NoDoc == [id |-> 0]

ExistingFees(fs, studentId, feeType, t) ==
    {f \in fs : /\ f.student = studentId
                /\ f.feeType = feeType
                /\ f.dueDate >= StartOfMonth(t)
                /\ f.dueDate <= EndOfMonth(t)}

\* what findOne may return: one of the matching documents, or nothing
FindOneFee(fs, studentId, feeType, t) ==
    IF ExistingFees(fs, studentId, feeType, t) = {} THEN {NoDoc}
    ELSE ExistingFees(fs, studentId, feeType, t)

\* findByIdAndUpdate(id, data): $set of the fields data carries; no save hook
FeeUpdated(f, data) ==
    [f EXCEPT !.student = data.student,
              !.feeType = data.feeType,
              !.amount = data.amount,
              !.dueDate = data.dueDate,
              !.status = IF data.status = NoStatus THEN @ ELSE data.status,
              !.paidAmount = IF data.paidAmount = NA THEN @ ELSE data.paidAmount,
              !.arrears = IF data.arrears = NA THEN @ ELSE data.arrears,
              !.recordedBy = data.recordedBy]

\* Fee.create(data): defaults, then the pre-save hook on the new document
FeeCreated(id, data, t) == PreSave(NewFee(id, data), NewFeeModified(data), TRUE, t)

\* "if (existingFee) findByIdAndUpdate else create", on the store <<fs, seq>>
UpsertFee(fs, seq, e, data, t) ==
    IF e # NoDoc
    THEN [fees |-> (fs \ {e}) \cup {FeeUpdated(e, data)}, seq |-> seq,
          id |-> e.id, created |-> FALSE, hook |-> NoHook]
    ELSE [fees |-> fs \cup {FeeCreated(seq + 1, data, t)}, seq |-> seq + 1,
          id |-> seq + 1, created |-> TRUE,
          hook |-> HookTrace(NewFee(seq + 1, data), NewFeeModified(data), TRUE,
                             data.status = "paid", t)]

(***************************************************************************)
(* createInitialFeeRecord(studentId, recordedById, monthlyFeeAmount)       *)
(***************************************************************************)
InitialFeeData(fs, studentId, recordedById, monthlyFeeAmount, t) ==
    [student |-> studentId,
     feeType |-> "tuition",
     amount |-> monthlyFeeAmount,
     dueDate |-> EndOfMonth(t),
     status |-> "unpaid",
     paidAmount |-> NA,
     arrears |-> calculateStudentArrears(fs, studentId, t, TRUE),
     recordedBy |-> recordedById]

createInitialFeeRecord(studentId, recordedById, monthlyFeeAmount) ==
    \E e \in FindOneFee(fees, studentId, "tuition", now) :
        LET r == UpsertFee(fees, feeSeq, e,
                           InitialFeeData(fees, studentId, recordedById,
                                          monthlyFeeAmount, now), now)
        IN  /\ fees' = r.fees
            /\ feeSeq' = r.seq
            /\ hook' = r.hook
            /\ out' = [op |-> "createInitialFeeRecord", student |-> studentId,
                       fee |-> r.id, created |-> r.created, t |-> now,
                       again |-> /\ out.op = "createInitialFeeRecord"
                                 /\ out.student = studentId
                                 /\ Month(out.t) = Month(now)]
            /\ UNCHANGED <<now, students, importVars, salaries>>

(***************************************************************************)
(* createFeeRecord (POST /api/fees)                                        *)
(***************************************************************************)
\* req.body once recordedBy and arrears are filled in
FeeBody(body, userId) ==
    [body EXCEPT !.recordedBy = userId,
                 !.arrears = IF @ = NA
                             THEN calculateStudentArrears(fees, body.student, now, TRUE)
                             ELSE @]

StudentExists(studentId) == \E st \in students : st.id = studentId

\* a single fee type
createFeeRecord(body, userId) ==
    /\ StudentExists(body.student)
    /\ \E e \in FindOneFee(fees, body.student, body.feeType, body.dueDate) :
        LET r == UpsertFee(fees, feeSeq, e, FeeBody(body, userId), now)
        IN  /\ fees' = r.fees
            /\ feeSeq' = r.seq
            /\ hook' = r.hook
            /\ out' = [op |-> "createFeeRecord", fee |-> r.id, created |-> r.created]
            /\ UNCHANGED <<now, students, importVars, salaries>>

\* feeType 'all': one tuition and one exam record, in this order
createAllFeeRecords(body, userId) ==
    /\ StudentExists(body.student)
    /\ LET data == FeeBody(body, userId)
       IN  \E e1 \in FindOneFee(fees, body.student, "tuition", body.dueDate) :
            LET r1 == UpsertFee(fees, feeSeq, e1, [data EXCEPT !.feeType = "tuition"], now)
            IN  \E e2 \in FindOneFee(r1.fees, body.student, "exam", body.dueDate) :
                 LET r2 == UpsertFee(r1.fees, r1.seq, e2,
                                     [data EXCEPT !.feeType = "exam"], now)
                 IN  /\ fees' = r2.fees
                     /\ feeSeq' = r2.seq
                     /\ hook' = r2.hook
                     /\ out' = [op |-> "createFeeRecord", fee |-> r2.id,
                                created |-> r2.created]
                     /\ UNCHANGED <<now, students, importVars, salaries>>

(***************************************************************************)
(* updateFeeRecord (PUT /api/fees/:id)                                     *)
(***************************************************************************)
\* Object.keys(req.body).forEach(key => fee[key] = req.body[key])
FeeAssigned(f, body) ==
    [f EXCEPT !.amount = IF body.amount = NA THEN @ ELSE body.amount,
              !.paidAmount = IF body.paidAmount = NA THEN @ ELSE body.paidAmount,
              !.status = IF body.status = NoStatus THEN @ ELSE body.status,
              !.dueDate = IF body.dueDate = NoDate THEN @ ELSE body.dueDate]

\* the paths the assignments mark modified: those whose value changed
AssignedModified(f, body) ==
    {k \in {"amount", "paidAmount", "status", "dueDate"} :
        FeeAssigned(f, body)[k] # f[k]}

updateFeeRecord(id, body) ==
    \E f \in fees :
        /\ f.id = id
        /\ fees' = (fees \ {f}) \cup
                     {PreSave(FeeAssigned(f, body), AssignedModified(f, body), FALSE, now)}
        /\ hook' = HookTrace(FeeAssigned(f, body), AssignedModified(f, body), FALSE,
                             body.status = "paid", now)
        /\ out' = [op |-> "updateFeeRecord", fee |-> id]
        /\ UNCHANGED <<now, feeSeq, students, importVars, salaries>>

(***************************************************************************)
(* getStudentArrears (GET /api/fees/arrears/:studentId)                    *)
(***************************************************************************)
getStudentArrears(studentId, findOk) ==
    /\ StudentExists(studentId)
    /\ out' = [op |-> "getStudentArrears", student |-> studentId,
               findOk |-> findOk, t |-> now,
               arrears |-> calculateStudentArrears(fees, studentId, now, findOk)]
    /\ hook' = NoHook
    /\ UNCHANGED <<now, fees, feeSeq, students, importVars, salaries>>

(***************************************************************************)
(* The clock.                                                              *)
(***************************************************************************)
Tick(last) ==
    /\ now + 1 <= last
    /\ now' = now + 1
    /\ UNCHANGED <<fees, feeSeq, students, hook, out, importVars, salaries>>

\* the first instant of the next calendar month
NextMonth(lastMonth) ==
    /\ Month(now) + 1 <= lastMonth
    /\ now' = StartOfMonth(now) + PosPerMonth
    /\ UNCHANGED <<fees, feeSeq, students, hook, out, importVars, salaries>>

(***************************************************************************)
(* The bulk import pipeline: uploadStudents, uploadTeachers,               *)
(* uploadAdminStaff, uploadSupportStaff.                                   *)
(*                                                                         *)
(* A request runs through parse, the row loop (check, User.create, profile *)
(* create), createUploadHistory, the response and the finally block.  An   *)
(* uploaded file is what parseFile makes of it: unreadable, or a sequence  *)
(* of row objects.                                                         *)
(***************************************************************************)
ReqIds == {"r1"}
Importers == {"uploadStudents", "uploadTeachers", "uploadAdminStaff", "uploadSupportStaff"}
RowImporters == {"uploadStudents", "uploadTeachers"}

\* text is a sequence of characters; an e-mail address is its local part
\* followed by one token for "@domain"
SchoolDomain == "@schoolms.com"
NoEmail == <<>>
WordChars == {"a", "b", "o", "s", "1"}
Lower(c) ==
    CASE c = "A" -> "a"
      [] c = "B" -> "b"
      [] c = "O" -> "o"
      [] c = "S" -> "s"
      [] OTHER -> c

\* s.toLowerCase().replace(/[^a-z0-9]/g, '')
RECURSIVE CleanName(_)
CleanName(s) ==
    IF s = <<>> THEN <<>>
    ELSE (IF Lower(Head(s)) \in WordChars THEN <<Lower(Head(s))>> ELSE <<>>)
            \o CleanName(Tail(s))

\* `${prefix}${cleanFirstName}${cleanLastName}@schoolms.com`
GeneratedEmail(prefix, row) ==
    <<prefix>> \o CleanName(row.firstName) \o CleanName(row.lastName) \o <<SchoolDomain>>

EmailExists(us, email) == \E u \in us : u.email = email

Digit == <<"1", "2", "3", "4", "5", "6", "7", "8", "9">>
BasePart(email) == SubSeq(email, 1, Len(email) - 1)
DomainPart(email) == email[Len(email)]

\* while (await User.findOne({ email: newEmail })) newEmail = base + counter++
RECURSIVE ProbeEmail(_, _, _, _)
ProbeEmail(us, generatedEmail, newEmail, counter) ==
    IF EmailExists(us, newEmail)
    THEN ProbeEmail(us, generatedEmail,
                    BasePart(generatedEmail) \o <<Digit[counter]>>
                        \o <<DomainPart(generatedEmail)>>,
                    counter + 1)
    ELSE newEmail

\* let counter = 1; a variant that starts the suffixes at 2
UniqueEmailFromTwo(us, generatedEmail) ==
    IF EmailExists(us, generatedEmail)
    THEN ProbeEmail(us, generatedEmail, generatedEmail, 2)
    ELSE generatedEmail

UniqueEmail(us, generatedEmail) ==
    IF EmailExists(us, generatedEmail)
    THEN ProbeEmail(us, generatedEmail, generatedEmail, 1)
    ELSE generatedEmail

\* /^\w+([\.-]?\w+)*@\w+([\.-]?\w+)*(\.\w{2,3})+$/ on an address of the school domain
isValidEmail(email) ==
    /\ Len(email) >= 2
    /\ DomainPart(email) = SchoolDomain
    /\ BasePart(email)[Len(email) - 1] # "-"
    /\ \A k \in 1 .. Len(email) - 2 : ~(email[k] = "-" /\ email[k + 1] = "-")

\* !email || !email.startsWith('std') || !email.endsWith('@schoolms.com')
NeedsGeneratedEmail(row) ==
    \/ row.email = NoEmail
    \/ Head(row.email) # "std"
    \/ DomainPart(row.email) # SchoolDomain

Genders == {"male", "female", "other"}
NotANumber == NA       \* a numeric cell that holds text, and the NaN parsed from it

\* the requiredFields loop: !student[field]
MissingFields(row) ==
    \/ row.missing
    \/ row.firstName = <<>>
    \/ row.lastName = <<>>
    \/ row.monthlyFee = 0

\* parseFloat(student.monthlyFee) || 0
ParsedFee(cell) == IF cell = NotANumber THEN 0 ELSE cell

\* parseFloat(teacher.salary), like parseInt(teacher.experience): no fallback
ParsedSalary(cell) == IF cell = NotANumber THEN NotANumber ELSE cell

GoodRow ==
    [firstName |-> <<"A">>, lastName |-> <<"b">>, email |-> NoEmail, rollNumber |-> "s1",
     gender |-> "male", monthlyFee |-> 500, salary |-> 500, missing |-> FALSE]

RowKinds ==
    {GoodRow,
     [GoodRow EXCEPT !.firstName = <<"b">>, !.lastName = <<"-", "a">>, !.rollNumber = "s2",
                     !.monthlyFee = NotANumber, !.salary = NotANumber],
     [GoodRow EXCEPT !.missing = TRUE, !.rollNumber = "s3"],
     [GoodRow EXCEPT !.gender = "x", !.rollNumber = "s4"],
     [GoodRow EXCEPT !.email = <<"std", "a", "b", SchoolDomain>>, !.rollNumber = "s5"],
     [GoodRow EXCEPT !.monthlyFee = 0, !.rollNumber = "s6"]}

RowSeqs == UNION {[1 .. n -> RowKinds] : n \in 0 .. MaxRows}

FileContents ==
    {[readable |-> FALSE, rows |-> <<>>]} \cup {[readable |-> TRUE, rows |-> rs] : rs \in RowSeqs}

\* n.toString() as a sequence of decimal digits
RECURSIVE DecimalString(_)
DecimalString(n) ==
    IF n < 10 THEN <<n>> ELSE Append(DecimalString(n \div 10), n % 10)

\* s.padStart(targetLength, '0')
PadStart(s, targetLength) ==
    IF Len(s) >= targetLength THEN s
    ELSE [k \in 1 .. targetLength - Len(s) |-> 0] \o s

\* s.substr(-2)
LastTwo(s) == IF Len(s) <= 2 THEN s ELSE SubSeq(s, Len(s) - 1, Len(s))

Year(t) == Month(t) \div 12

\* `TCH${currentYear}${(teacherCount + 1).toString().padStart(4, '0')}`; a
\* variant without padStart
TeacherEmployeeIdUnpadded(teacherCount, t) ==
    <<"TCH">> \o LastTwo(DecimalString(Year(t))) \o DecimalString(teacherCount + 1)

TeacherEmployeeId(teacherCount, t) ==
    <<"TCH">> \o LastTwo(DecimalString(Year(t)))
              \o PadStart(DecimalString(teacherCount + 1), 4)

NoEmployeeId == <<>>
NoSrc == <<"seed", 0>>
NoRes == [code |-> 0, totalRecords |-> 0, successCount |-> 0, errorCount |-> 0, errors |-> <<>>]
ErrorRes(code) == [NoRes EXCEPT !.code = code]

IdleReq ==
    [pc |-> "idle", importer |-> "none", content |-> [readable |-> FALSE, rows |-> <<>>],
     promise |-> "none", totalRecords |-> 0, i |-> 0, successCount |-> 0,
     errorCount |-> 0, errors |-> <<>>, email |-> NoEmail, employeeId |-> NoEmployeeId,
     res |-> NoRes]

NoImports ==
    /\ imp = [r \in ReqIds |-> IdleReq]
    /\ users = {}
    /\ staff = {}
    /\ history = <<>>
    /\ files = {}
    /\ proc = "up"

Rows(st) == st.content.rows

\* the catch of the row loop, then the next iteration; a variant that leaves the loop
RowFailedAbort(st, message) ==
    [st EXCEPT !.errorCount = @ + 1,
               !.errors = Append(@, [row |-> st.i + 1, message |-> message]),
               !.i = @ + 1, !.pc = "history", !.email = NoEmail]

\* a row error that reaches the outer catch of the handler instead
RowFailedToOuterCatch(st, message) ==
    [st EXCEPT !.pc = "finally", !.res = ErrorRes(400), !.email = NoEmail]

\* the catch of the row loop without errorCount++
RowFailedUncounted(st, message) ==
    [st EXCEPT !.errors = Append(@, [row |-> st.i + 1, message |-> message]),
               !.i = @ + 1,
               !.pc = IF st.i + 1 > Len(Rows(st)) THEN "history" ELSE "row",
               !.email = NoEmail]

\* the catch of the row loop numbering the rows without the header row
RowFailedFromOne(st, message) ==
    [st EXCEPT !.errorCount = @ + 1,
               !.errors = Append(@, [row |-> st.i, message |-> message]),
               !.i = @ + 1,
               !.pc = IF st.i + 1 > Len(Rows(st)) THEN "history" ELSE "row",
               !.email = NoEmail]

RowFailed(st, message) ==
    [st EXCEPT !.errorCount = @ + 1,
               !.errors = Append(@, [row |-> st.i + 1, message |-> message]),
               !.i = @ + 1,
               !.pc = IF st.i + 1 > Len(Rows(st)) THEN "history" ELSE "row",
               !.email = NoEmail]

RowSucceeded(st) ==
    [st EXCEPT !.successCount = @ + 1,
               !.i = @ + 1,
               !.pc = IF st.i + 1 > Len(Rows(st)) THEN "history" ELSE "row",
               !.email = NoEmail]

\* errorCount === 0 ? 'success' : (successCount > 0 ? 'partial' : 'failed')
ImportStatusFailedFirst(successCount, errorCount) ==
    IF successCount = 0 THEN "failed" ELSE IF errorCount = 0 THEN "success" ELSE "partial"

ImportStatus(successCount, errorCount) ==
    IF errorCount = 0 THEN "success" ELSE IF successCount > 0 THEN "partial" ELSE "failed"

UserType(importer) ==
    CASE importer = "uploadStudents" -> "student"
      [] importer = "uploadTeachers" -> "teacher"
      [] importer = "uploadAdminStaff" -> "admin-staff"
      [] OTHER -> "support-staff"

\* if (!req.file) return res.status(400)
RejectNoFile(r, importer) ==
    /\ proc = "up"
    /\ imp[r].pc = "idle"
    /\ imp' = [imp EXCEPT ![r] = [IdleReq EXCEPT !.pc = "done", !.importer = importer,
                                                   !.res = ErrorRes(400)]]
    /\ UNCHANGED <<salaries, now, fees, feeSeq, students, hook, out, users, staff, history, files, proc>>

\* the upload middleware has stored the file; the handler starts
StartImport(r, importer, content) ==
    /\ proc = "up"
    /\ imp[r].pc = "idle"
    /\ imp' = [imp EXCEPT ![r] = [IdleReq EXCEPT !.pc = "parse", !.importer = importer,
                                                   !.content = content]]
    /\ files' = files \cup {r}
    /\ UNCHANGED <<salaries, now, fees, feeSeq, students, hook, out, users, staff, history, proc>>

\* uploadStudents: try { students = await parseFile } catch { return 400 }; 0 rows: 400
ParseStudents(r) ==
    LET st == imp[r]
    IN  /\ proc = "up"
        /\ st.pc = "parse"
        /\ st.importer = "uploadStudents"
        /\ imp' = [imp EXCEPT ![r] =
                     IF ~st.content.readable \/ Len(Rows(st)) = 0
                     THEN [st EXCEPT !.pc = "finally", !.res = ErrorRes(400)]
                     ELSE [st EXCEPT !.pc = "row", !.i = 1,
                                     !.totalRecords = Len(Rows(st))]]
        /\ UNCHANGED <<salaries, now, fees, feeSeq, students, hook, out, users, staff, history,
                       files, proc>>

\* uploadTeachers: await parseFile inside the outer try; a parse error answers 500
ParseTeachers(r) ==
    LET st == imp[r]
    IN  /\ proc = "up"
        /\ st.pc = "parse"
        /\ st.importer = "uploadTeachers"
        /\ imp' = [imp EXCEPT ![r] =
                     IF ~st.content.readable
                     THEN [st EXCEPT !.pc = "finally", !.res = ErrorRes(500)]
                     ELSE IF Len(Rows(st)) = 0
                     THEN [st EXCEPT !.pc = "finally", !.res = ErrorRes(400)]
                     ELSE [st EXCEPT !.pc = "row", !.i = 1,
                                     !.totalRecords = Len(Rows(st))]]
        /\ UNCHANGED <<salaries, now, fees, feeSeq, students, hook, out, users, staff, history,
                       files, proc>>

\* uploadAdminStaff, uploadSupportStaff: parseFile(filePath) without await.  The
\* list is a Promise; its length is undefined, so totalRecords is undefined,
\* totalRecords === 0 is false and the loop condition i < undefined is false.
ParseStaff(r) ==
    LET st == imp[r]
    IN  /\ proc = "up"
        /\ st.pc = "parse"
        /\ st.importer \in {"uploadAdminStaff", "uploadSupportStaff"}
        /\ imp' = [imp EXCEPT ![r] = [st EXCEPT !.pc = "history", !.promise = "pending",
                                                !.totalRecords = NA]]
        /\ UNCHANGED <<salaries, now, fees, feeSeq, students, hook, out, users, staff, history,
                       files, proc>>

\* The Promise nobody awaits settles.  A rejection is an unhandled rejection:
\* the process logs it and goes on, or it goes down.  An unlink that is under
\* way when the process goes down has either happened or not.
SettleParse(r) ==
    LET st == imp[r]
    IN  /\ proc = "up"
        /\ st.promise = "pending"
        /\ \/ /\ st.content.readable
              /\ imp' = [imp EXCEPT ![r] = [st EXCEPT !.promise = "resolved"]]
              /\ UNCHANGED <<files, proc>>
           \/ /\ ~st.content.readable \/ r \notin files
              /\ imp' = [imp EXCEPT ![r] = [st EXCEPT !.promise = "rejected"]]
              /\ \/ UNCHANGED <<files, proc>>
                 \/ /\ proc' = "down"
                    /\ \/ UNCHANGED files
                       \/ st.pc = "unlinking" /\ files' = files \ {r}
        /\ UNCHANGED <<salaries, now, fees, feeSeq, students, hook, out, users, staff, history>>

\* uploadStudents, one row: required fields, e-mail, roll number
CheckStudentRow(r) ==
    LET st == imp[r]
        row == Rows(st)[st.i]
        email == IF NeedsGeneratedEmail(row)
                 THEN UniqueEmail(users, GeneratedEmail("std", row))
                 ELSE row.email
    IN  /\ proc = "up"
        /\ st.pc = "row"
        /\ st.importer = "uploadStudents"
        /\ imp' = [imp EXCEPT ![r] =
                     IF MissingFields(row)
                     THEN RowFailed(st, "Missing required fields")
                     ELSE IF ~NeedsGeneratedEmail(row) /\ ~isValidEmail(row.email)
                     THEN RowFailed(st, "Invalid email format")
                     ELSE IF ~NeedsGeneratedEmail(row) /\ EmailExists(users, row.email)
                     THEN RowFailed(st, "Email already exists")
                     ELSE IF \E s \in students : s.rollNumber = row.rollNumber
                     THEN RowFailed(st, "Roll number already exists")
                     ELSE [st EXCEPT !.pc = "user", !.email = email]]
        /\ UNCHANGED <<salaries, now, fees, feeSeq, students, hook, out, users, staff, history,
                       files, proc>>

\* uploadTeachers, one row: required fields, generated e-mail, employee ID from
\* Teacher.countDocuments()
CheckTeacherRow(r) ==
    LET st == imp[r]
        row == Rows(st)[st.i]
    IN  /\ proc = "up"
        /\ st.pc = "row"
        /\ st.importer = "uploadTeachers"
        /\ imp' = [imp EXCEPT ![r] =
                     IF row.missing \/ row.firstName = <<>> \/ row.lastName = <<>>
                     THEN RowFailed(st, "Missing required fields")
                     ELSE [st EXCEPT !.pc = "user",
                                     !.email = UniqueEmail(users, GeneratedEmail("tch", row)),
                                     !.employeeId =
                                         TeacherEmployeeId(
                                             Cardinality({p \in staff : p.kind = "teacher"}),
                                             now)]]
        /\ UNCHANGED <<salaries, now, fees, feeSeq, students, hook, out, users, staff, history,
                       files, proc>>

\* User.create(userData): e-mail addresses are unique among accounts
UserCreate(us, email, role, src) ==
    IF EmailExists(us, email) THEN us
    ELSE us \cup {[email |-> email, role |-> role, src |-> src]}

CreateUser(r) ==
    LET st == imp[r]
    IN  /\ proc = "up"
        /\ st.pc = "user"
        /\ users' = UserCreate(users, st.email, UserType(st.importer), <<r, st.i>>)
        /\ imp' = [imp EXCEPT ![r] =
                     IF EmailExists(users, st.email)
                     THEN RowFailed(st, "duplicate key")
                     ELSE [st EXCEPT !.pc = "profile"]]
        /\ UNCHANGED <<salaries, now, fees, feeSeq, students, hook, out, staff, history, files, proc>>

\* rollNumber: { unique: true }; a variant without the index
RollNumberNotIndexed(ss, rollNumber) == FALSE

RollNumberIndexed(ss, rollNumber) == \E s \in ss : s.rollNumber = rollNumber

\* if (createdStudent && createdStudent.monthlyFee > 0); a variant that always seeds
SeedsFeeAlways(monthlyFee) == TRUE

SeedsFee(monthlyFee) == monthlyFee > 0

\* Student.create(studentData), then createInitialFeeRecord when monthlyFee > 0;
\* createInitialFeeRecord catches its own errors and answers null (feeOk false)
CreateStudent(r) ==
    LET st == imp[r]
        row == Rows(st)[st.i]
        fee == ParsedFee(row.monthlyFee)
    IN  /\ proc = "up"
        /\ st.pc = "profile"
        /\ st.importer = "uploadStudents"
        /\ IF row.gender \notin Genders
           THEN /\ imp' = [imp EXCEPT ![r] = RowFailed(st, "validation failed")]
                /\ UNCHANGED <<students, fees, feeSeq, hook, out>>
           ELSE IF RollNumberIndexed(students, row.rollNumber)
           THEN /\ imp' = [imp EXCEPT ![r] = RowFailed(st, "duplicate key")]
                /\ UNCHANGED <<students, fees, feeSeq, hook, out>>
           ELSE /\ imp' = [imp EXCEPT ![r] = RowSucceeded(st)]
                /\ students' = students \cup
                     {[id |-> row.rollNumber, user |-> st.email,
                       rollNumber |-> row.rollNumber, monthlyFee |-> fee,
                       isActive |-> TRUE, src |-> <<r, st.i>>]}
                /\ IF SeedsFee(fee)
                   THEN \E e \in FindOneFee(fees, row.rollNumber, "tuition", now),
                           feeOk \in BOOLEAN :
                          LET u == UpsertFee(fees, feeSeq, e,
                                             InitialFeeData(fees, row.rollNumber, "admin1",
                                                            fee, now), now)
                          IN  IF feeOk
                              THEN /\ fees' = u.fees
                                   /\ feeSeq' = u.seq
                                   /\ hook' = u.hook
                                   /\ out' = [op |-> "createInitialFeeRecord",
                                              student |-> row.rollNumber, fee |-> u.id,
                                              created |-> u.created, t |-> now,
                                              again |-> FALSE]
                              ELSE /\ out' = [op |-> "createInitialFeeRecord",
                                              student |-> row.rollNumber, fee |-> NA,
                                              created |-> FALSE, t |-> now,
                                              again |-> FALSE]
                                   /\ UNCHANGED <<fees, feeSeq, hook>>
                   ELSE UNCHANGED <<fees, feeSeq, hook, out>>
        /\ UNCHANGED <<salaries, now, users, staff, history, files, proc>>

\* employee IDs are unique among the staff profiles of one type
EmployeeIdExists(ps, kind, employeeId) ==
    \E p \in ps : p.kind = kind /\ p.employeeId = employeeId

\* Teacher.create(teacherData): a gender outside the schema's values, or a NaN
\* in a numeric field, may be refused
CreateTeacher(r) ==
    LET st == imp[r]
        row == Rows(st)[st.i]
    IN  /\ proc = "up"
        /\ st.pc = "profile"
        /\ st.importer = "uploadTeachers"
        /\ \/ IF EmployeeIdExists(staff, "teacher", st.employeeId)
              THEN /\ imp' = [imp EXCEPT ![r] = RowFailed(st, "duplicate key")]
                   /\ UNCHANGED staff
              ELSE /\ imp' = [imp EXCEPT ![r] = RowSucceeded(st)]
                   /\ staff' = staff \cup
                        {[kind |-> "teacher", employeeId |-> st.employeeId,
                          salary |-> ParsedSalary(row.salary),
                          user |-> st.email, src |-> <<r, st.i>>]}
           \/ /\ row.gender \notin Genders \/ ParsedSalary(row.salary) = NotANumber
              /\ imp' = [imp EXCEPT ![r] = RowFailed(st, "validation failed")]
              /\ UNCHANGED staff
        /\ UNCHANGED <<salaries, now, fees, feeSeq, students, hook, out, users, history, files, proc>>

\* UploadHistory.create(doc): the document is stored, or the write throws
UploadHistoryCreate(h, doc, ok) == IF ok THEN Append(h, doc) ELSE h

\* createUploadHistory, then res.status(200).json; a throw goes to the outer catch
createUploadHistory(r) ==
    LET st == imp[r]
        status == ImportStatus(st.successCount, st.errorCount)
        doc == [req |-> r, userType |-> UserType(st.importer), status |-> status,
                totalRecords |-> st.totalRecords, successCount |-> st.successCount,
                errorCount |-> st.errorCount, errors |-> st.errors]
    IN  /\ proc = "up"
        /\ st.pc = "history"
        /\ \E ok \in BOOLEAN :
             /\ history' = UploadHistoryCreate(history, doc, ok)
             /\ imp' = [imp EXCEPT ![r] =
                          IF ok
                          THEN [st EXCEPT !.pc = "finally",
                                          !.res = [code |-> 200,
                                                   totalRecords |-> st.totalRecords,
                                                   successCount |-> st.successCount,
                                                   errorCount |-> st.errorCount,
                                                   errors |-> st.errors]]
                          ELSE [st EXCEPT !.pc = "finally", !.res = ErrorRes(500)]]
        /\ UNCHANGED <<salaries, now, fees, feeSeq, students, hook, out, users, staff, files, proc>>

\* uploadStudents, finally: if (fs.existsSync(filePath)) fs.unlinkSync(filePath)
CleanupSync(r) ==
    LET st == imp[r]
    IN  /\ proc = "up"
        /\ st.pc = "finally"
        /\ st.importer = "uploadStudents"
        /\ files' = files \ {r}
        /\ imp' = [imp EXCEPT ![r] = [st EXCEPT !.pc = "done"]]
        /\ UNCHANGED <<salaries, now, fees, feeSeq, students, hook, out, users, staff, history, proc>>

\* the other importers, finally: fs.unlink(filePath, callback)
CleanupUnlink(r) ==
    LET st == imp[r]
    IN  /\ proc = "up"
        /\ st.pc = "finally"
        /\ st.importer # "uploadStudents"
        /\ imp' = [imp EXCEPT ![r] = [st EXCEPT !.pc = "unlinking"]]
        /\ UNCHANGED <<salaries, now, fees, feeSeq, students, hook, out, users, staff, history,
                       files, proc>>

UnlinkDone(r) ==
    LET st == imp[r]
    IN  /\ proc = "up"
        /\ st.pc = "unlinking"
        /\ files' = files \ {r}
        /\ imp' = [imp EXCEPT ![r] = [st EXCEPT !.pc = "done"]]
        /\ UNCHANGED <<salaries, now, fees, feeSeq, students, hook, out, users, staff, history, proc>>

\* an account and a student that exist before the import
SeedUsers == {[email |-> <<"std", "a", "b", SchoolDomain>>, role |-> "student", src |-> NoSrc]}
SeedStudents ==
    {[id |-> "s2", user |-> <<"std", "a", "b", SchoolDomain>>, rollNumber |-> "s2",
      monthlyFee |-> 0, isActive |-> TRUE, src |-> NoSrc]}

InitImport ==
    /\ now = (CutoverMonth + 1) * PosPerMonth
    /\ fees = {}
    /\ feeSeq = 0
    /\ salaries = {}
    /\ hook = NoHook
    /\ out = NoOut
    /\ imp = [r \in ReqIds |-> IdleReq]
    /\ \/ users = {} /\ students = {}
       \/ users = SeedUsers /\ students = SeedStudents
    /\ staff = {}
    /\ history = <<>>
    /\ files = {}
    /\ proc = "up"

ImportStep(r) ==
    \/ ParseStudents(r)
    \/ ParseTeachers(r)
    \/ ParseStaff(r)
    \/ SettleParse(r)
    \/ CheckStudentRow(r)
    \/ CheckTeacherRow(r)
    \/ CreateUser(r)
    \/ CreateStudent(r)
    \/ CreateTeacher(r)
    \/ createUploadHistory(r)
    \/ CleanupSync(r)
    \/ CleanupUnlink(r)
    \/ UnlinkDone(r)

NextImport ==
    \/ \E r \in ReqIds, importer \in Importers : RejectNoFile(r, importer)
    \/ \E r \in ReqIds, importer \in Importers, content \in FileContents :
          StartImport(r, importer, content)
    \/ \E r \in ReqIds : ImportStep(r)

SpecImport == InitImport /\ [][NextImport]_vars

\* every step of a running handler is eventually taken
SpecImportFair == SpecImport /\ \A r \in ReqIds : WF_vars(ImportStep(r))

(***************************************************************************)
(* uploadStudents on files whose rows differ in their names only: the      *)
(* generated e-mail address.                                               *)
(***************************************************************************)
FirstNames == {<<"O", "'", "B">>, <<"o", "b">>, <<"-">>}
LastNames == {<<"S">>, <<"s", "1">>, <<" ", "s">>}
RollOfRow == <<"s1", "s2", "s3", "s4">>

NamedRow(i, first, last) ==
    [GoodRow EXCEPT !.firstName = first, !.lastName = last, !.rollNumber = RollOfRow[i]]

EmailFiles ==
    {[readable |-> TRUE, rows |-> [i \in DOMAIN f |-> NamedRow(i, f[i][1], f[i][2])]] :
        f \in UNION {[1 .. n -> FirstNames \X LastNames] : n \in 1 .. MaxRows}}

StudentAccount(local) ==
    [email |-> <<"std">> \o local \o <<SchoolDomain>>, role |-> "student", src |-> NoSrc]

\* accounts that exist before the import
EmailSeeds ==
    {{}, {StudentAccount(<<"o", "b", "s">>)},
     {StudentAccount(<<"o", "b", "s", "1">>)},
     {StudentAccount(<<"o", "b", "s">>), StudentAccount(<<"o", "b", "s", "1">>)}}

InitEmail ==
    /\ now = (CutoverMonth + 1) * PosPerMonth
    /\ fees = {}
    /\ feeSeq = 0
    /\ salaries = {}
    /\ hook = NoHook
    /\ out = NoOut
    /\ imp = [r \in ReqIds |-> IdleReq]
    /\ users \in EmailSeeds
    /\ students = {}
    /\ staff = {}
    /\ history = <<>>
    /\ files = {}
    /\ proc = "up"

NextEmail ==
    \/ \E content \in EmailFiles : StartImport("r1", "uploadStudents", content)
    \/ ParseStudents("r1")
    \/ CheckStudentRow("r1")
    \/ CreateUser("r1")
    \/ CreateStudent("r1")
    \/ createUploadHistory("r1")
    \/ CleanupSync("r1")

SpecEmail == InitEmail /\ [][NextEmail]_vars

(***************************************************************************)
(* Two uploads at the same time.  Each await of a handler is a step, and   *)
(* the steps of the two requests interleave in any order.                  *)
(***************************************************************************)
RaceReqs == {"r1", "r2"}

\* one-row files: the same person, another name with the same roll number,
\* the same name with another roll number, a gender the schema refuses
RaceRows ==
    {GoodRow,
     [GoodRow EXCEPT !.firstName = <<"b">>, !.lastName = <<"a">>],
     [GoodRow EXCEPT !.rollNumber = "s2"],
     [GoodRow EXCEPT !.firstName = <<"o">>, !.gender = "x", !.rollNumber = "s3"]}

RaceFiles == {[readable |-> TRUE, rows |-> <<row>>] : row \in RaceRows}

\* n teachers stored before the uploads, numbered as uploadTeachers numbers
\* them, and their accounts
SeedTeacherEmail(k) == <<"tch", "s">> \o DecimalString(k) \o <<SchoolDomain>>

SeedTeachers(n, t) ==
    {[kind |-> "teacher", employeeId |-> TeacherEmployeeId(k - 1, t),
      salary |-> 500, user |-> SeedTeacherEmail(k), src |-> NoSrc] : k \in 1 .. n}

SeedTeacherUsers(n) ==
    {[email |-> SeedTeacherEmail(k), role |-> "teacher", src |-> NoSrc] : k \in 1 .. n}

InitRace ==
    /\ now = (CutoverMonth + 1) * PosPerMonth
    /\ fees = {}
    /\ feeSeq = 0
    /\ salaries = {}
    /\ hook = NoHook
    /\ out = NoOut
    /\ imp = [r \in RaceReqs |-> IdleReq]
    /\ students = {}
    /\ \E n \in {0, MaxTeachers} :
          /\ users = SeedTeacherUsers(n)
          /\ staff = SeedTeachers(n, now)
    /\ history = <<>>
    /\ files = {}
    /\ proc = "up"

RowImportStep(r) ==
    \/ ParseStudents(r)
    \/ ParseTeachers(r)
    \/ CheckStudentRow(r)
    \/ CheckTeacherRow(r)
    \/ CreateUser(r)
    \/ CreateStudent(r)
    \/ CreateTeacher(r)
    \/ createUploadHistory(r)
    \/ CleanupSync(r)
    \/ CleanupUnlink(r)
    \/ UnlinkDone(r)

NextRace ==
    \/ \E r \in RaceReqs, importer \in RowImporters, content \in RaceFiles :
          StartImport(r, importer, content)
    \/ \E r \in RaceReqs : RowImportStep(r)

SpecRace == InitRace /\ [][NextRace]_vars

(***************************************************************************)
(* parseFile: from the uploaded file to the header keys.  Text is a        *)
(* sequence of characters.  A CSV file is a sequence of lines, a worksheet *)
(* a sequence of rows of cells.                                            *)
(***************************************************************************)
Quote == "\""
Backslash == "\\"
Comma == ","
Blank == " "
Paren == "("

\* s.trim()
RECURSIVE TrimStart(_)
TrimStart(s) == IF s # <<>> /\ Head(s) = Blank THEN TrimStart(Tail(s)) ELSE s

RECURSIVE TrimEnd(_)
TrimEnd(s) ==
    IF s # <<>> /\ s[Len(s)] = Blank THEN TrimEnd(SubSeq(s, 1, Len(s) - 1)) ELSE s

Trim(s) == TrimEnd(TrimStart(s))

\* char === ',' && !inQuotes; a variant that splits at every comma
SplitsAtEveryComma(char, inQuotes) == char = Comma

SplitsHere(char, inQuotes) == char = Comma /\ ~inQuotes

\* the loop over the characters of a line, then row.push(currentValue)
RECURSIVE ScanLine(_, _, _, _, _)
ScanLine(line, i, row, inQuotes, currentValue) ==
    IF i > Len(line) THEN Append(row, currentValue)
    ELSE IF line[i] = Quote /\ (i = 1 \/ line[i - 1] # Backslash)
    THEN ScanLine(line, i + 1, row, ~inQuotes, currentValue)
    ELSE IF SplitsHere(line[i], inQuotes)
    THEN ScanLine(line, i + 1, Append(row, currentValue), inQuotes, <<>>)
    ELSE ScanLine(line, i + 1, row, inQuotes, Append(currentValue, line[i]))

\* value.startsWith('"') && value.endsWith('"') ? value.substring(1, length - 1) : value;
\* substring(1, 0) of a one-character value is substring(0, 1)
CleanedValue(value) ==
    IF value # <<>> /\ Head(value) = Quote /\ value[Len(value)] = Quote
    THEN IF Len(value) = 1 THEN value ELSE SubSeq(value, 2, Len(value) - 1)
    ELSE value

SplitLine(line) ==
    LET row == ScanLine(line, 1, <<>>, FALSE, <<>>)
    IN  [k \in 1 .. Len(row) |-> CleanedValue(row[k])]

\* the rows of a CSV file: lines that are blank are skipped
RECURSIVE CsvRows(_)
CsvRows(lines) ==
    IF lines = <<>> THEN <<>>
    ELSE (IF Trim(Head(lines)) = <<>> THEN <<>> ELSE <<SplitLine(Head(lines))>>)
            \o CsvRows(Tail(lines))

\* headerText.match(/^([^(]+)/): the characters before the first parenthesis
RECURSIVE MatchBeforeParen(_)
MatchBeforeParen(s) ==
    IF s = <<>> \/ Head(s) = Paren THEN <<>>
    ELSE <<Head(s)>> \o MatchBeforeParen(Tail(s))

\* if (!header) return ''; match ? match[1].trim() : headerText.trim()
ExtractHeader(header) ==
    IF header = <<>> THEN <<>>
    ELSE IF MatchBeforeParen(header) # <<>> THEN Trim(MatchBeforeParen(header))
    ELSE Trim(header)

Texts(chars, n) == UNION {[1 .. k -> chars] : k \in 0 .. n}

ExampleLine == <<"John", Comma, Quote, "Doe", Comma, " Jr.", Quote, Comma, "30">>
CsvLines == Texts({"a", Comma, Quote, Backslash}, MaxLineLen) \cup {ExampleLine}

\* a CSV file: a first line and one more line, which may be empty
CsvFiles == {<<line, second>> : line \in CsvLines, second \in {<<"a">>, <<>>}}

ExampleHeader == <<"rollNumber", Blank, Paren, "REQUIRED, unique", ")">>
BlankHeader == <<Blank, Blank, Blank, Paren, "Optional", ")">>
HeaderTexts ==
    Texts({"a", Blank, Paren, ")"}, MaxHeaderLen) \cup {ExampleHeader, BlankHeader}

\* a worksheet: a header row of one or two cells and one data row
Sheets ==
    {<<<<h>>, <<<<"a">>>>>> : h \in HeaderTexts}
        \cup {<<<<<<"a">>, h>>, <<<<"a">>, <<"a">>>>>> : h \in HeaderTexts}

\* the template's header cells, its instruction texts, and cell values
FirstNameHeader == <<"firstName", Blank, Paren, "REQUIRED", ")">>
EmailHeader == <<"email", Blank, Paren, "Optional", ")">>
ClassHeader == <<"class", Blank, Paren, "REQUIRED", ")">>
ImportantText == <<"IMPORTANT: Fields marked as REQUIRED must be filled in.">>
AddBelowText == <<"--- ADD YOUR DATA BELOW THIS LINE ---">>
EmptyCell == <<>>

\* a worksheet row: no cell at all, a first cell only, or one cell per column
SheetRows ==
    {<<>>, <<<<"a">>>>}
        \cup {<<f, e, c>> : f \in {EmptyCell, <<"a">>, ImportantText, AddBelowText},
                            e \in {EmptyCell, <<"a">>, ImportantText},
                            c \in {EmptyCell, <<"a">>}}

\* worksheets with the template's header row and up to MaxRows rows below it
TemplateSheets ==
    {<<<<FirstNameHeader, EmailHeader, ClassHeader>>>> \o rows :
        rows \in UNION {[1 .. n -> SheetRows] : n \in 0 .. MaxRows}}

\* valueStr.toUpperCase().includes('IMPORTANT' | 'NOTE' | 'INSTRUCTION')
LooksLikeInstruction(value) == \E k \in 1 .. Len(value) : <<value[k]>> = ImportantText

\* value !== '' && !(instruction): the cell holds a real data value
IsDataValue(value) == value # EmptyCell /\ ~LooksLikeInstruction(value)

KeyFields == {<<"firstName">>, <<"lastName">>, <<"email">>}

Smaller(a, b) == IF a < b THEN a ELSE b

\* obj[header] = row[index] for every header with index < row.length; of two
\* columns with the same header the later one stays
RowObject(headers, row) ==
    LET filled == 1 .. Smaller(Len(headers), Len(row))
    IN  [h \in {headers[k] : k \in filled} |->
            row[CHOOSE k \in filled :
                    /\ headers[k] = h
                    /\ \A j \in filled : headers[j] = h => j <= k]]

\* !isEmpty && requiredFieldCount > 0
EmitsRow(obj) ==
    /\ \E h \in DOMAIN obj : IsDataValue(obj[h])
    /\ \E h \in DOMAIN obj : h \in KeyFields /\ obj[h] # EmptyCell

\* the loop over rawData[1 ..]: the indices of the rows that are emitted
RECURSIVE EmittedFrom(_, _, _)
EmittedFrom(headers, rawData, i) ==
    IF i > Len(rawData) THEN <<>>
    ELSE (IF EmitsRow(RowObject(headers, rawData[i])) THEN <<i>> ELSE <<>>)
            \o EmittedFrom(headers, rawData, i + 1)

NoParse ==
    [op |-> "parseFile", stage |-> "file", csv |-> FALSE, content |-> <<>>,
     rawData |-> <<>>, rawLine |-> <<>>, headers |-> <<>>, data |-> <<>>,
     dataLine |-> <<>>, message |-> "none"]

InitParse ==
    /\ now = (CutoverMonth + 1) * PosPerMonth
    /\ fees = {}
    /\ feeSeq = 0
    /\ salaries = {}
    /\ students = {}
    /\ hook = NoHook
    /\ NoImports
    /\ \/ \E lines \in CsvFiles : out = [NoParse EXCEPT !.csv = TRUE, !.content = lines]
       \/ \E sheet \in Sheets : out = [NoParse EXCEPT !.content = sheet]
       \/ \E sheet \in TemplateSheets : out = [NoParse EXCEPT !.content = sheet]

\* the positions in the file of the lines and rows that reach rawData: blank
\* CSV lines and worksheet rows without cells are left out
RECURSIVE KeptLines(_, _, _)
KeptLines(csv, content, i) ==
    IF i > Len(content) THEN <<>>
    ELSE (IF (csv /\ Trim(content[i]) = <<>>) \/ (~csv /\ content[i] = <<>>)
          THEN <<>> ELSE <<i>>)
            \o KeptLines(csv, content, i + 1)

\* lines 538-608: rawData from the lines of a CSV file or the rows of a worksheet
ReadRawData ==
    /\ out.op = "parseFile"
    /\ out.stage = "file"
    /\ out' = [out EXCEPT !.stage = "rawData",
                          !.rawLine = KeptLines(out.csv, out.content, 1),
                          !.rawData =
                              IF out.csv THEN CsvRows(out.content)
                              ELSE [n \in 1 .. Len(KeptLines(FALSE, out.content, 1)) |->
                                        out.content[KeptLines(FALSE, out.content, 1)[n]]]]
    /\ UNCHANGED <<salaries, now, fees, feeSeq, students, hook, imp, users, staff, history,
                   files, proc>>

\* lines 610-634: fewer than 2 rows is an error; the header keys; an empty key
\* is an error
ExtractHeaders ==
    LET headers == [k \in 1 .. Len(out.rawData[1]) |-> ExtractHeader(out.rawData[1][k])]
    IN  /\ out.op = "parseFile"
        /\ out.stage = "rawData"
        /\ out' = IF Len(out.rawData) < 2
                  THEN [out EXCEPT !.stage = "error", !.message = "not enough rows"]
                  ELSE IF \E k \in 1 .. Len(headers) : headers[k] = <<>>
                  THEN [out EXCEPT !.stage = "error", !.headers = headers,
                                   !.message = "Empty column headers found"]
                  ELSE [out EXCEPT !.stage = "headers", !.headers = headers]
        /\ UNCHANGED <<salaries, now, fees, feeSeq, students, hook, imp, users, staff, history,
                       files, proc>>

\* lines 636-680: one object per data row; rows that look empty or carry none
\* of the key fields are skipped
BuildRows ==
    LET emitted == EmittedFrom(out.headers, out.rawData, 2)
    IN  /\ out.op = "parseFile"
        /\ out.stage = "headers"
        /\ out' = [out EXCEPT !.stage = "rows",
                              !.data = [n \in 1 .. Len(emitted) |->
                                           RowObject(out.headers, out.rawData[emitted[n]])],
                              !.dataLine = [n \in 1 .. Len(emitted) |->
                                               out.rawLine[emitted[n]]]]
        /\ UNCHANGED <<salaries, now, fees, feeSeq, students, hook, imp, users, staff, history,
                       files, proc>>

NextParse == ReadRawData \/ ExtractHeaders \/ BuildRows

SpecParse == InitParse /\ [][NextParse]_vars

(***************************************************************************)
(* The life of one fee document: every way the engine creates and rewrites *)
(* it.  The hook and the assignments act on one document at a time, so the *)
(* store holds one document here.                                          *)
(***************************************************************************)
FeeStudents ==
    {[id |-> sid, user |-> sid, rollNumber |-> sid, monthlyFee |-> 1000,
      isActive |-> TRUE, src |-> NoSrc] : sid \in StudentIds}

InitFee ==
    /\ now = FirstMonth * PosPerMonth
    /\ fees = {}
    /\ feeSeq = 0
    /\ salaries = {}
    /\ students = FeeStudents
    /\ hook = NoHook
    /\ out = NoOut
    /\ NoImports

\* the clock of this specification makes MaxTicks steps
LastInstant == FirstMonth * PosPerMonth + MaxTicks

Amounts == {0, 1000}
PaidAmounts == {0, 400, 1000}
DueDates == {EndOfMonth(FirstMonth * PosPerMonth), EndOfMonth(FirstMonth * PosPerMonth) + 1}

FeeData == [student : {"s1"}, feeType : {"tuition"}, amount : Amounts,
            dueDate : DueDates, status : Statuses \cup {NoStatus},
            paidAmount : PaidAmounts \cup {NA}, arrears : {NA, 0},
            recordedBy : Staff]

UpdateBody == [amount : Amounts \cup {NA}, paidAmount : PaidAmounts \cup {NA},
               status : Statuses \cup {NoStatus},
               dueDate : {NoDate, EndOfMonth(FirstMonth * PosPerMonth)}]

NextFee ==
    \/ \E body \in FeeData, u \in Staff :
          createFeeRecord(body, u) /\ Cardinality(fees') = 1
    \/ \E body \in UpdateBody : updateFeeRecord(1, body)
    \/ \E u \in Staff, amt \in Amounts :
          createInitialFeeRecord("s1", u, amt) /\ Cardinality(fees') = 1
    \/ Tick(LastInstant)

SpecFee == InitFee /\ [][NextFee]_vars

(***************************************************************************)
(* Properties of the pre-save hook, under SpecFee.                         *)
(***************************************************************************)
\* the document the last run of the hook saved
Hooked == CHOOSE f \in fees : f.id = hook.id

\* the last save changed paidAmount and its data did not carry status 'paid'
PaidChangedSave == hook.id # 0 /\ hook.modPaid /\ ~hook.statusPaidSet

\* C5 as stated: after a save with paidAmount changed and no explicit 'paid',
\* remainingAmount = amount - paidAmount and the status before the overdue
\* check is 'unpaid' if paidAmount = 0, 'partial' if 0 < paidAmount < amount,
\* 'paid' (with a paymentDate) if paidAmount >= amount.
C5_AsStated ==
    PaidChangedSave =>
        /\ Hooked.remainingAmount = Hooked.amount - Hooked.paidAmount
        /\ (Hooked.paidAmount = 0 => hook.midStatus = "unpaid")
        /\ (0 < Hooked.paidAmount /\ Hooked.paidAmount < Hooked.amount
               => hook.midStatus = "partial")
        /\ (Hooked.paidAmount >= Hooked.amount
               => hook.midStatus = "paid" /\ Hooked.paymentDate # NoDate)

\* C5 amended: the same, with 'paid' only if paidAmount >= amount and
\* paidAmount is not 0 (a save with paidAmount = 0 gives 'unpaid' whatever
\* the amount).
C5_StatusDerivation ==
    PaidChangedSave =>
        /\ Hooked.remainingAmount = Hooked.amount - Hooked.paidAmount
        /\ (Hooked.paidAmount = 0 => hook.midStatus = "unpaid")
        /\ (0 < Hooked.paidAmount /\ Hooked.paidAmount < Hooked.amount
               => hook.midStatus = "partial")
        /\ (Hooked.paidAmount >= Hooked.amount /\ Hooked.paidAmount # 0
               => hook.midStatus = "paid" /\ Hooked.paymentDate # NoDate)

\* a partial payment of 400 on 1000 saved by updateFeeRecord
C5_Witness ==
    /\ PaidChangedSave
    /\ out.op = "updateFeeRecord"
    /\ Hooked.amount = 1000 /\ Hooked.paidAmount = 400
    /\ hook.midStatus = "partial" /\ Hooked.remainingAmount = 600

\* C6 (on a fee with a positive amount): after a save whose data carried
\* status 'paid', the saved record has status 'paid', paidAmount = amount,
\* remainingAmount = 0 and a paymentDate.
C6_ExplicitPaidWins ==
    hook.id # 0 /\ hook.statusPaidSet /\ Hooked.amount > 0 =>
        /\ Hooked.status = "paid"
        /\ Hooked.paidAmount = Hooked.amount
        /\ Hooked.remainingAmount = 0
        /\ Hooked.paymentDate # NoDate

\* C7: every fee record that is not 'paid' has
\* remainingAmount = amount - paidAmount.
C7_RemainingInvariant ==
    \A f \in fees :
        f.status # "paid" => f.remainingAmount = f.amount - f.paidAmount

(***************************************************************************)
(* The fee store: several documents of several students, created through   *)
(* POST /api/fees, read through GET /api/fees/arrears/:studentId.  The     *)
(* clock starts in the cutover month, May 2025.                            *)
(***************************************************************************)
InitStore ==
    /\ now = CutoverMonth * PosPerMonth
    /\ fees = {}
    /\ feeSeq = 0
    /\ salaries = {}
    /\ students = FeeStudents
    /\ hook = NoHook
    /\ out = NoOut
    /\ NoImports

\* due dates: the last day of April and of May, the first day of June
StoreDueDates ==
    {EndOfMonth(FirstMonth * PosPerMonth),
     EndOfMonth(CutoverMonth * PosPerMonth),
     (CutoverMonth + 1) * PosPerMonth}

StoreFeeData ==
    [student : StudentIds, feeType : {"tuition"}, amount : {500},
     dueDate : StoreDueDates, status : {NoStatus},
     paidAmount : {NA, 300, 500}, arrears : {0}, recordedBy : Staff]

\* every POST creates a document: no record of its student, type and month yet
NextStore ==
    \/ \E body \in StoreFeeData, u \in Staff :
          createFeeRecord(body, u) /\ feeSeq' = feeSeq + 1 /\ feeSeq' <= MaxFees
    \/ \E sid \in StudentIds, ok \in BOOLEAN : getStudentArrears(sid, ok)
    \/ NextMonth(CutoverMonth + MaxMonths - 1)

SpecStore == InitStore /\ [][NextStore]_vars

(***************************************************************************)
(* C8: the arrears of a student.                                           *)
(***************************************************************************)
\* what one document owes towards the arrears of student sid at instant t
Owed(f, sid, t) ==
    IF f.student = sid /\ Month(f.dueDate) < Month(t) /\ f.status # "paid"
    THEN (IF f.status = "partial" THEN f.remainingAmount ELSE f.amount)
    ELSE 0

RECURSIVE OwedUpTo(_, _, _)
OwedUpTo(n, sid, t) ==
    IF n = 0 THEN 0
    ELSE OwedUpTo(n - 1, sid, t)
           + (IF \E f \in fees : f.id = n
              THEN Owed(CHOOSE f \in fees : f.id = n, sid, t) ELSE 0)

ArrearsAnswered == out.op = "getStudentArrears"

\* C8 as stated: every answer of calculateStudentArrears is the sum, over the
\* student's unpaid, partial and overdue records due before the current month,
\* of remainingAmount (partial) or amount (unpaid, overdue).
C8_AsStated ==
    ArrearsAnswered => out.arrears = OwedUpTo(feeSeq, out.student, out.t)

\* C8: calculateStudentArrears returns that sum in every month but May 2025
\* and when the query succeeds; in May 2025, and when the query throws, it
\* returns 0.
C8_ArrearsSum ==
    ArrearsAnswered =>
        out.arrears = IF Month(out.t) = CutoverMonth \/ ~out.findOk THEN 0
                      ELSE OwedUpTo(feeSeq, out.student, out.t)

\* an overdue record of 500 and a partial record with 200 remaining give 700
C8_Witness ==
    /\ ArrearsAnswered
    /\ out.findOk
    /\ Month(out.t) # CutoverMonth
    /\ out.arrears = 700
    /\ \E f \in fees : f.student = out.student /\ f.status = "partial"
                         /\ f.remainingAmount = 200
    /\ \E f \in fees : f.student = out.student /\ f.status = "overdue"
                         /\ f.amount = 500

(***************************************************************************)
(* Fee creation: POST /api/fees with one fee type or with 'all', and       *)
(* createInitialFeeRecord, for due dates on the last day of May 2025 at    *)
(* 00:00 and at 12:00.                                                     *)
(***************************************************************************)
CreateDueDates ==
    {EndOfMonth(CutoverMonth * PosPerMonth), EndOfMonth(CutoverMonth * PosPerMonth) + 1}

CreateFeeData ==
    [student : StudentIds, feeType : {"tuition", "exam"}, amount : {500},
     dueDate : CreateDueDates, status : {NoStatus},
     paidAmount : {NA}, arrears : {NA}, recordedBy : Staff]

CreateLastInstant == CutoverMonth * PosPerMonth + (PosPerMonth - 1)

NextCreate ==
    \/ \E body \in CreateFeeData, u \in Staff :
          createFeeRecord(body, u) /\ feeSeq' <= MaxFees
    \/ \E body \in CreateFeeData, u \in Staff :
          createAllFeeRecords(body, u) /\ feeSeq' <= MaxFees
    \/ \E sid \in StudentIds, u \in Staff :
          createInitialFeeRecord(sid, u, 500) /\ feeSeq' <= MaxFees
    \/ Tick(CreateLastInstant)

SpecCreate == InitStore /\ [][NextCreate]_vars

\* the tuition records of a student whose due date lies in the month of t
TuitionOfMonth(sid, t) ==
    {f \in fees : f.student = sid /\ f.feeType = "tuition"
                    /\ Month(f.dueDate) = Month(t)}

\* C9: after createInitialFeeRecord has been called twice in a row for the
\* same student within one calendar month, the student has exactly one
\* tuition record for that month.
C9_IdempotentUpsert ==
    (out.op = "createInitialFeeRecord" /\ out.again)
        => Cardinality(TuitionOfMonth(out.student, out.t)) = 1

\* C10: no two Fee records share student, fee type and calendar month of
\* the due date.
C10_OnePerPeriod ==
    \A f, g \in fees :
        (f.student = g.student /\ f.feeType = g.feeType
            /\ Month(f.dueDate) = Month(g.dueDate)) => f = g

(***************************************************************************)
(* C1 - C4: the import pipeline.                                           *)
(***************************************************************************)
Finished(r) == imp[r].pc \in {"finally", "unlinking", "done"}
LoopDone(r) == imp[r].pc \in {"history", "finally", "unlinking", "done"}
ReturnedCounts(r) == imp[r].res.code = 200
\* the parser emitted rows for the file of request r
ParsedRows(r) ==
    /\ imp[r].pc \notin {"idle", "parse"}
    /\ imp[r].content.readable
    /\ imp[r].promise # "rejected"
ErrorRows(r) == {imp[r].errors[k].row : k \in 1 .. Len(imp[r].errors)}
HistoryOf(r) == {k \in 1 .. Len(history) : history[k].req = r}

\* C1: every import that returns aggregate counts has successCount +
\* errorCount = totalRecords = the number of rows the parser emitted.
C1_CountsInvariant ==
    \A r \in ReqIds :
        (ReturnedCounts(r) /\ ParsedRows(r)) =>
            /\ imp[r].res.totalRecords = Len(Rows(imp[r]))
            /\ imp[r].res.successCount + imp[r].res.errorCount = Len(Rows(imp[r]))

\* row i of request r created an Account and a Profile that refers to it
HasAccountAndProfile(r, i) ==
    \E u \in users :
        /\ u.src = <<r, i>>
        /\ \/ \E s \in students : s.src = <<r, i>> /\ s.user = u.email
           \/ \E p \in staff : p.src = <<r, i>> /\ p.user = u.email

HasProfile(r, i) ==
    \/ \E s \in students : s.src = <<r, i>>
    \/ \E p \in staff : p.src = <<r, i>>

\* a row that is complete and valid (a teacher's salary is numeric) and whose
\* roll number no other row of the file and no student stored before the
\* import carries
SoundRow(r, i) ==
    LET st == imp[r]
        row == Rows(st)[i]
    IN  /\ ~MissingFields(row)
        /\ row.gender \in Genders
        /\ NeedsGeneratedEmail(row)
        /\ st.importer = "uploadTeachers" => ParsedSalary(row.salary) # NotANumber
        /\ st.importer = "uploadStudents" =>
             /\ \A j \in 1 .. Len(Rows(st)) : j # i => Rows(st)[j].rollNumber # row.rollNumber
             /\ \A s \in students : s.src = NoSrc => s.rollNumber # row.rollNumber

\* C2: in uploadStudents and uploadTeachers a failing row does not stop the
\* loop: inside the loop all earlier rows are counted, after it every row is
\* counted once; every sound row succeeded and has its Account and Profile,
\* whatever the other rows did, and a row has an error entry exactly when it
\* has no Profile.
C2_RowIsolation ==
    \A r \in ReqIds :
        LET st == imp[r]
        IN  /\ (st.importer \in RowImporters /\ st.pc \in {"row", "user", "profile"}) =>
                   st.successCount + st.errorCount = st.i - 1
            /\ (st.importer \in RowImporters /\ LoopDone(r) /\ ParsedRows(r)
                  /\ Len(Rows(st)) > 0) =>
                   /\ st.successCount + st.errorCount = Len(Rows(st))
                   /\ Cardinality(ErrorRows(r)) = st.errorCount
                   /\ \A i \in 1 .. Len(Rows(st)) :
                        /\ SoundRow(r, i) => HasAccountAndProfile(r, i)
                        /\ (i + 1 \in ErrorRows(r)) <=> ~HasProfile(r, i)
                        /\ HasProfile(r, i) => HasAccountAndProfile(r, i)

\* MaxRows rows of which only one, not the last, lacks a required field: one
\* error, MaxRows - 1 successes, the other rows have Account and Profile
C2_Witness ==
    \E r \in ReqIds :
        LET st == imp[r]
        IN  /\ st.importer \in RowImporters
            /\ ReturnedCounts(r)
            /\ Len(Rows(st)) = MaxRows
            /\ st.res.errorCount = 1
            /\ st.res.successCount = MaxRows - 1
            /\ st.res.errors[1].message = "Missing required fields"
            /\ st.res.errors[1].row < MaxRows + 1
            /\ \A i \in 1 .. MaxRows :
                 (i + 1 # st.res.errors[1].row) => HasAccountAndProfile(r, i)

\* the status rule of C3 on a history record
StatusRule(h) ==
    /\ h.status = "success" <=> h.errorCount = 0
    /\ h.status = "failed" <=> (h.errorCount > 0 /\ h.successCount = 0)
    /\ h.status = "partial" <=> (h.errorCount > 0 /\ h.successCount > 0)

CountsMatch(h, res) ==
    /\ h.totalRecords = res.totalRecords
    /\ h.successCount = res.successCount
    /\ h.errorCount = res.errorCount
    /\ h.errors = res.errors

\* C3 as stated: every finished import whose parsing yielded at least one
\* row has persisted exactly one ImportHistory record.
C3_AsStated ==
    \A r \in ReqIds :
        (Finished(r) /\ ParsedRows(r) /\ Len(Rows(imp[r])) > 0) =>
            Cardinality(HistoryOf(r)) = 1

\* C3: an import has no history record before it finishes; a finished import
\* that returned counts has exactly one, with the returned counts and the
\* status the rule gives; a finished import whose history write failed has
\* none and returned an error; an import that parsed rows ends in one of
\* these two ways.
C3_HistoryRecord ==
    \A r \in ReqIds :
        /\ ~Finished(r) => HistoryOf(r) = {}
        /\ (Finished(r) /\ ReturnedCounts(r)) =>
              /\ Cardinality(HistoryOf(r)) = 1
              /\ \A k \in HistoryOf(r) :
                     CountsMatch(history[k], imp[r].res) /\ StatusRule(history[k])
        /\ (Finished(r) /\ ~ReturnedCounts(r)) => HistoryOf(r) = {}
        /\ (Finished(r) /\ ParsedRows(r) /\ Len(Rows(imp[r])) > 0) =>
              imp[r].res.code \in {200, 500}

\* every row failed, and the record is there with status 'failed'
C3_Witness ==
    \E r \in ReqIds :
        /\ Finished(r)
        /\ ReturnedCounts(r)
        /\ imp[r].res.successCount = 0
        /\ imp[r].res.errorCount = MaxRows
        /\ \E k \in HistoryOf(r) : history[k].status = "failed"

\* C4: the uploaded file of a request is eventually removed from temporary
\* storage.
C4_FileRemoved == \A r \in ReqIds : (r \in files) ~> (r \notin files)

(***************************************************************************)
(* Properties of the generated student e-mail address, under SpecEmail.    *)
(***************************************************************************)
IsAlphanumeric(c) ==
    c \in {"a", "b", "o", "s", "0", "1", "2", "3", "4", "5", "6", "7", "8", "9"}

\* a name in lower case without its non-alphanumeric characters
Cleaned(s) == SelectSeq([k \in 1 .. Len(s) |-> Lower(s[k])], IsAlphanumeric)

LocalPart(row) == <<"std">> \o Cleaned(row.firstName) \o Cleaned(row.lastName)

\* the address with suffix k; no suffix for k = 0
Suffixed(local, k) ==
    local \o (IF k = 0 THEN <<>> ELSE <<Digit[k]>>) \o <<SchoolDomain>>

Generating(r) ==
    /\ imp[r].importer = "uploadStudents"
    /\ imp[r].pc = "user"
    /\ NeedsGeneratedEmail(Rows(imp[r])[imp[r].i])

\* C11: the address generated for a student row is 'std' followed by the
\* lowercased first and last name without their non-alphanumeric characters,
\* followed by nothing when that address is free and otherwise by the smallest
\* k >= 1 whose address is free.
C11_EmailGeneration ==
    \A r \in ReqIds :
        Generating(r) =>
            LET local == LocalPart(Rows(imp[r])[imp[r].i])
            IN  \E k \in 0 .. Len(Digit) :
                    /\ imp[r].email = Suffixed(local, k)
                    /\ ~EmailExists(users, Suffixed(local, k))
                    /\ \A j \in 0 .. k - 1 : EmailExists(users, Suffixed(local, j))

\* the second row has the cleaned name of the first (O'B S and ob s), whose
\* account took the address without suffix: the second row gets suffix 1
C11_Witness ==
    \E r \in ReqIds :
        /\ Generating(r)
        /\ imp[r].i = 2
        /\ Rows(imp[r])[1].firstName # Rows(imp[r])[2].firstName
        /\ LocalPart(Rows(imp[r])[1]) = LocalPart(Rows(imp[r])[2])
        /\ LocalPart(Rows(imp[r])[2]) = <<"std", "o", "b", "s">>
        /\ \E u \in users : u.src = <<r, 1>> /\ u.email = Suffixed(LocalPart(Rows(imp[r])[1]), 0)
        /\ imp[r].email = Suffixed(LocalPart(Rows(imp[r])[2]), 1)

(***************************************************************************)
(* Properties of concurrent uploads, under SpecRace.                       *)
(***************************************************************************)
\* the row of request r that Teacher.create or Student.create refused as a
\* duplicate, after the row's account was created
LostAtProfile(r, i) ==
    /\ \E e \in 1 .. Len(imp[r].errors) :
          imp[r].errors[e] = [row |-> i + 1, message |-> "duplicate key"]
    /\ \E u \in users : u.src = <<r, i>>

\* C12: in every reachable state, whatever the interleaving of the requests, no
\* two Student profiles share a roll number, no two staff profiles of one type
\* share an employee ID, and no two accounts share an e-mail address.
C12_Uniqueness ==
    /\ \A s1 \in students, s2 \in students : s1.rollNumber = s2.rollNumber => s1 = s2
    /\ \A p1 \in staff, p2 \in staff :
          p1.kind = p2.kind /\ p1.employeeId = p2.employeeId => p1 = p2
    /\ \A u1 \in users, u2 \in users : u1.email = u2.email => u1 = u2

\* two uploadTeachers requests computed the same employee ID; one teacher is
\* stored under it and the other request's row was refused
C12_Witness ==
    \E r1 \in RaceReqs, r2 \in RaceReqs :
        /\ r1 # r2
        /\ imp[r1].importer = "uploadTeachers"
        /\ imp[r2].importer = "uploadTeachers"
        /\ \E p \in staff : p.src = <<r1, 1>>
        /\ LostAtProfile(r2, 1)
        /\ imp[r1].pc = "done"
        /\ imp[r2].pc = "done"

(***************************************************************************)
(* uploadAdminStaff and uploadSupportStaff, under SpecImport.              *)
(***************************************************************************)
StaffImporters == {"uploadAdminStaff", "uploadSupportStaff"}

\* C13: in uploadAdminStaff and uploadSupportStaff every parsed row is
\* processed: when the handler has answered, each row the parser emitted has
\* its Account and Profile or its entry in the error list.
C13_StaffRowsProcessed ==
    \A r \in ReqIds :
        (imp[r].importer \in StaffImporters /\ Finished(r) /\ ParsedRows(r)) =>
            \A i \in 1 .. Len(Rows(imp[r])) :
                HasAccountAndProfile(r, i) \/ i + 1 \in ErrorRows(r)

\* the file of request r cannot be parsed, or the parser emits no row for it
ParseFailsOrEmpty(r) ==
    /\ imp[r].pc # "idle"
    /\ ~imp[r].content.readable \/ Len(Rows(imp[r])) = 0

CreatedBy(r) ==
    {u \in users : u.src[1] = r} \cup {s \in students : s.src[1] = r}
        \cup {p \in staff : p.src[1] = r}

\* C14: for each importer, when parsing fails or yields no row, the request
\* ends with an error response, creates no Account and no Profile, and stores
\* no history record.
C14_ParseFailureAborts ==
    \A r \in ReqIds :
        (ParseFailsOrEmpty(r) /\ Finished(r)) =>
            /\ imp[r].res.code \in {400, 500}
            /\ CreatedBy(r) = {}
            /\ HistoryOf(r) = {}

\* row i of request r has an Account and no Profile
Orphaned(r, i) ==
    /\ \E u \in users : u.src = <<r, i>>
    /\ ~HasProfile(r, i)

\* the step in which the profile create of row i of request r fails
ProfileRefused(r, i) ==
    /\ imp[r].pc = "profile"
    /\ imp[r].i = i
    /\ imp'[r].pc # "profile"
    /\ ~(HasProfile(r, i))'

\* C15: no rollback within a row.  When the Profile create of a row fails, the
\* row's Account exists and stays, the row is counted as an error and not as a
\* success; a row with an error entry never gets a Profile; no step of an
\* import changes or removes an Account.
C15_NoRollback ==
    /\ [](\A r \in ReqIds : \A i \in 1 .. Len(Rows(imp[r])) :
            i + 1 \in ErrorRows(r) => ~HasProfile(r, i))
    /\ [][/\ users \subseteq users'
          /\ \A r \in ReqIds : \A i \in 1 .. Len(Rows(imp[r])) :
                ProfileRefused(r, i) =>
                    /\ Orphaned(r, i)
                    /\ (Orphaned(r, i))'
                    /\ imp'[r].errorCount = imp[r].errorCount + 1
                    /\ imp'[r].successCount = imp[r].successCount
                    /\ (i + 1 \in ErrorRows(r))']_vars

\* an upload has ended; one of its rows has an error entry and an Account
\* without a Profile
C15_Witness ==
    \E r \in ReqIds :
        /\ imp[r].pc = "done"
        /\ \E i \in 1 .. Len(Rows(imp[r])) :
              /\ i + 1 \in ErrorRows(r)
              /\ Orphaned(r, i)
        /\ imp[r].res.code = 200
        /\ imp[r].res.errorCount >= 1

\* the step in which Student.create stores the profile s for row i of request r
StudentCreated(r, i, s) ==
    /\ imp[r].pc = "profile"
    /\ imp[r].i = i
    /\ s \notin students
    /\ s \in students'
    /\ s.src = <<r, i>>

\* the call createInitialFeeRecord(s, ...) answered null
SeedingFailed(s) ==
    /\ out.op = "createInitialFeeRecord"
    /\ out.student = s.id
    /\ out.fee = NA

\* the call createInitialFeeRecord(s, ...) answered a tuition record of s
Seeded(s) ==
    /\ out.op = "createInitialFeeRecord"
    /\ out.student = s.id
    /\ \E f \in fees :
          /\ f.id = out.fee
          /\ f.student = s.id
          /\ f.feeType = "tuition"
          /\ f.amount = s.monthlyFee

\* C16: in uploadStudents the step that creates a student calls
\* createInitialFeeRecord iff the created profile's monthlyFee > 0; whether the
\* call answers a tuition record of the student or null, the row counts as a
\* success, and the Account and Profile stay.
C16_FeeSeeding ==
    [][/\ users \subseteq users'
       /\ students \subseteq students'
       /\ \A r \in ReqIds : \A i \in 1 .. Len(Rows(imp[r])) :
            \A s \in students' :
                StudentCreated(r, i, s) =>
                    /\ s.monthlyFee = ParsedFee(Rows(imp[r])[i].monthlyFee)
                    /\ s.monthlyFee > 0 => out' # out /\ (Seeded(s) \/ SeedingFailed(s))'
                    /\ (SeedingFailed(s))' => fees' = fees
                    /\ ~(s.monthlyFee > 0) => out' = out /\ fees' = fees
                    /\ imp'[r].successCount = imp[r].successCount + 1
                    /\ imp'[r].errorCount = imp[r].errorCount
                    /\ imp'[r].errors = imp[r].errors
                    /\ (HasAccountAndProfile(r, i))']_vars

\* an upload has ended with a success for a student whose monthlyFee > 0 and
\* whose seeding answered null: Account and Profile exist, no fee record does
C16_Witness ==
    \E r \in ReqIds : \E s \in students :
        /\ imp[r].pc = "done"
        /\ s.src[1] = r
        /\ s.monthlyFee > 0
        /\ SeedingFailed(s)
        /\ HasAccountAndProfile(r, s.src[2])
        /\ s.src[2] + 1 \notin ErrorRows(r)
        /\ imp[r].res.successCount >= 1
        /\ \A f \in fees : f.student # s.id

\* row i of request r went past the checks that precede User.create
PassedPreCheck(r, i) ==
    \/ imp[r].i = i /\ imp[r].pc \in {"user", "profile"}
    \/ \E u \in users : u.src = <<r, i>>
    \/ \E e \in 1 .. Len(imp[r].errors) :
          imp[r].errors[e] = [row |-> i + 1, message |-> "duplicate key"]

SameRollNumber(r1, r2) ==
    /\ r1 # r2
    /\ imp[r1].importer = "uploadStudents"
    /\ imp[r2].importer = "uploadStudents"
    /\ imp[r1].pc # "parse"
    /\ imp[r2].pc # "parse"
    /\ Rows(imp[r1])[1].rollNumber = Rows(imp[r2])[1].rollNumber
    /\ Rows(imp[r1])[1].gender \in Genders
    /\ Rows(imp[r2])[1].gender \in Genders
    /\ PassedPreCheck(r1, 1)
    /\ PassedPreCheck(r2, 1)

ComputesEmployeeId(r) ==
    /\ imp[r].importer = "uploadTeachers"
    /\ imp[r].pc = "row"
    /\ imp'[r].pc = "user"

TeacherCount == Cardinality({p \in staff : p.kind = "teacher"})

\* TCH, the last two digits of the year, and n as four digits
ExpectedEmployeeId(n, t) ==
    <<"TCH", (Year(t) \div 10) % 10, Year(t) % 10,
      (n \div 1000) % 10, (n \div 100) % 10, (n \div 10) % 10, n % 10>>

Nth(P, n) == CHOOSE k \in P : Cardinality({j \in P : j < k}) = n - 1

\* the characters of s at the positions P, in order
Picked(s, P) == [n \in 1 .. Cardinality(P) |-> s[Nth(P, n)]]

\* the text of a header cell before its first parenthesis, without the blanks
\* at its ends
FirstParen(h) ==
    IF \E k \in 1 .. Len(h) : h[k] = Paren
    THEN Nth({k \in 1 .. Len(h) : h[k] = Paren}, 1)
    ELSE Len(h) + 1

KeyOf(h) ==
    LET inner == {k \in 1 .. FirstParen(h) - 1 : h[k] # Blank}
    IN  IF inner = {} THEN <<>>
        ELSE SubSeq(h, Nth(inner, 1), Nth(inner, Cardinality(inner)))

HeaderCells == out.rawData[1]

\* C19: every header cell maps to the trimmed text before its first '(', and
\* a header cell whose text before the first parenthesis is empty or blank
\* aborts the parse.
C19_HeaderExtraction ==
    (out.op = "parseFile" /\ out.stage \in {"headers", "error"} /\ Len(out.rawData) >= 2) =>
        /\ out.stage = "headers" =>
              \A k \in 1 .. Len(HeaderCells) : out.headers[k] = KeyOf(HeaderCells[k])
        /\ (\E k \in 1 .. Len(HeaderCells) : KeyOf(HeaderCells[k]) = <<>>) =>
              out.stage = "error"

\* a quote that opens or closes a quoted value: not preceded by a backslash
Delimits(line, k) == line[k] = Quote /\ (k = 1 \/ line[k - 1] # Backslash)

\* position k of the line lies outside double quotes
Outside(line, k) == Cardinality({j \in 1 .. k - 1 : Delimits(line, j)}) % 2 = 0

Separators(line) == {k \in 1 .. Len(line) : line[k] = Comma /\ Outside(line, k)}

\* the m-th value of the line: the characters between the separators m - 1 and
\* m without the delimiting quotes
FieldOf(line, m) ==
    LET seps == Separators(line)
        lo == IF m = 1 THEN 1 ELSE Nth(seps, m - 1) + 1
        hi == IF m = Cardinality(seps) + 1 THEN Len(line) ELSE Nth(seps, m) - 1
    IN  Picked(line, {k \in lo .. hi : ~Delimits(line, k)})

FieldsOf(line) == [m \in 1 .. Cardinality(Separators(line)) + 1 |-> FieldOf(line, m)]

\* C20: a CSV line is split at the commas outside double quotes; commas
\* inside a quoted value stay in the value and the delimiting quotes are not
\* part of it.
C20_CsvSplitting ==
    (out.op = "parseFile" /\ out.csv /\ out.stage # "file") =>
        LET kept == {k \in 1 .. Len(out.content) : Trim(out.content[k]) # <<>>}
        IN  /\ Len(out.rawData) = Cardinality(kept)
            /\ \A n \in 1 .. Cardinality(kept) :
                  out.rawData[n] = FieldsOf(out.content[Nth(kept, n)])

\* the line John,"Doe, Jr.",30 gave the three values John / Doe, Jr. / 30
C20_Witness ==
    /\ out.op = "parseFile"
    /\ out.csv
    /\ out.stage = "rawData"
    /\ out.content[1] = ExampleLine
    /\ out.rawData[1] = <<<<"John">>, <<"Doe", Comma, " Jr.">>, <<"30">>>>

\* the parse of the file is over: rows are emitted, or the parse was aborted
ParseOver == out.op = "parseFile" /\ out.stage \in {"rows", "error"}

\* the rule of the row filter as stated: every value of the row is empty, or
\* none of firstName / lastName / email has a non-empty value
StatedSkip(obj) ==
    \/ \A h \in DOMAIN obj : obj[h] = EmptyCell
    \/ ~\E h \in DOMAIN obj : h \in KeyFields /\ obj[h] # EmptyCell

\* an instruction row of the template: its first cell holds one of the texts
InstructionRow(row) == row # <<>> /\ row[1] \in {ImportantText, AddBelowText}

\* C21: a data row is skipped exactly when all its values are empty or none of
\* firstName / lastName / email is non-empty; the other rows are emitted in
\* file order; no instruction row of the template is emitted; a file with fewer
\* than 2 rows is a parse error.
C21_RowFiltering ==
    /\ (ParseOver /\ Len(out.rawData) < 2) => out.stage = "error"
    /\ (out.op = "parseFile" /\ out.stage = "rows") =>
          LET kept == {i \in 2 .. Len(out.rawData) :
                          ~StatedSkip(RowObject(out.headers, out.rawData[i]))}
          IN  /\ Len(out.data) = Cardinality(kept)
              /\ \A n \in 1 .. Cardinality(kept) :
                    out.data[n] = RowObject(out.headers, out.rawData[Nth(kept, n)])
              /\ \A i \in 2 .. Len(out.rawData) :
                    InstructionRow(out.rawData[i]) =>
                        \A n \in 1 .. Len(out.data) : out.dataLine[n] # out.rawLine[i]

(***************************************************************************)
(* Writes through updateFeeRecord, under SpecFee.                          *)
(***************************************************************************)
\* the last write went through updateFeeRecord and its body did not carry
\* status 'paid'
UpdatedWithoutPaid == out.op = "updateFeeRecord" /\ hook.id # 0 /\ ~hook.statusPaidSet

\* C23: after a write through updateFeeRecord whose body does not carry
\* status 'paid', the stored status is 'paid' only if paidAmount >= amount,
\* 'unpaid' only if paidAmount = 0 and 'partial' only if
\* 0 < paidAmount < amount.
C23_StatusNotSettable ==
    UpdatedWithoutPaid =>
        /\ (Hooked.status = "paid" => Hooked.paidAmount >= Hooked.amount)
        /\ (Hooked.status = "unpaid" => Hooked.paidAmount = 0)
        /\ (Hooked.status = "partial" =>
               0 < Hooked.paidAmount /\ Hooked.paidAmount < Hooked.amount)

(***************************************************************************)
(* The overdue check, under SpecFee.                                       *)
(***************************************************************************)
\* this step saved a document through the pre-save hook
SavedThroughHook == now' = now /\ hook'.id # 0

\* the document the step saved was not stored as 'paid' before, and the data
\* of the step did not carry status 'paid'
NotPaidBefore == ~hook'.statusPaidSet /\ \A f \in fees : f.id = hook'.id => f.status # "paid"

\* C24: after every save through the pre-save hook, a fee whose dueDate is
\* earlier than the current time has status 'paid' or 'overdue' (amount 1000,
\* paidAmount 0, a past dueDate and no 'paid' status gives 'overdue'), and
\* the hook moves no fee to 'overdue' whose dueDate is not in the past.
C24_OverdueRule ==
    [][SavedThroughHook =>
          /\ Hooked'.dueDate < now => Hooked'.status \in {"paid", "overdue"}
          /\ (/\ Hooked'.amount = 1000 /\ Hooked'.paidAmount = 0
              /\ Hooked'.dueDate < now /\ NotPaidBefore)
                => Hooked'.status = "overdue"
          /\ (Hooked'.dueDate >= now /\ Hooked'.status = "overdue")
                => hook'.midStatus = "overdue"]_vars

\* an unpaid fee of 1000 saved after its dueDate and moved to 'overdue'
C24_Witness ==
    /\ hook.id # 0 /\ hook.midStatus = "unpaid"
    /\ Hooked.amount = 1000 /\ Hooked.paidAmount = 0
    /\ Hooked.dueDate < now /\ Hooked.status = "overdue"

(***************************************************************************)
(* C28: the arrears against the outstanding balance, under SpecStore.      *)
(***************************************************************************)
\* what student sid still has to pay on document f at instant t
Outstanding(f, sid, t) ==
    IF f.student = sid /\ f.dueDate < StartOfMonth(t) /\ f.status # "paid"
    THEN f.amount - f.paidAmount
    ELSE 0

RECURSIVE OutstandingUpTo(_, _, _)
OutstandingUpTo(n, sid, t) ==
    IF n = 0 THEN 0
    ELSE OutstandingUpTo(n - 1, sid, t)
           + (IF \E f \in fees : f.id = n
              THEN Outstanding(CHOOSE f \in fees : f.id = n, sid, t) ELSE 0)

\* C28: calculateStudentArrears never returns more than the sum of
\* amount - paidAmount over the student's non-paid fees due before the
\* current month; a partially paid fee that the hook made 'overdue' counts
\* with its unpaid remainder only.
C28_ArrearsWithinBalance ==
    ArrearsAnswered => out.arrears <= OutstandingUpTo(feeSeq, out.student, out.t)

(***************************************************************************)
(* C25: the error list of the row loop, under SpecImport.                  *)
(***************************************************************************)
\* the rows of request r that the loop has left behind, by their position in
\* the parsed row sequence counted from 0
RowsDone(r) == IF imp[r].i = 0 THEN {} ELSE 0 .. (imp[r].i - 2)

\* row rowIndex of request r failed: the loop left it without a Profile
FailedRow(r, rowIndex) == rowIndex \in RowsDone(r) /\ ~HasProfile(r, rowIndex + 1)

\* C25: in uploadStudents and uploadTeachers each failed row is recorded
\* exactly once as {row, message} with row = rowIndex + 2, rowIndex being the
\* 0-based position in the parsed row sequence; the list is in ascending row
\* order and its length equals errorCount.
C25_ErrorList ==
    \A r \in ReqIds :
        LET st == imp[r]
        IN  (st.importer \in RowImporters /\ st.pc \in {"row", "user", "profile", "history"}) =>
              /\ Len(st.errors) = st.errorCount
              /\ \A j, k \in 1 .. Len(st.errors) : j < k => st.errors[j].row < st.errors[k].row
              /\ \A k \in 1 .. Len(st.errors) : FailedRow(r, st.errors[k].row - 2)
              /\ \A rowIndex \in RowsDone(r) :
                    FailedRow(r, rowIndex) =>
                        Cardinality({k \in 1 .. Len(st.errors) :
                                        st.errors[k].row = rowIndex + 2}) = 1

\* two rows failed: the list is <<row 2, row 3>> and errorCount is 2
C25_Witness ==
    \E r \in ReqIds :
        LET st == imp[r]
        IN  /\ st.importer \in RowImporters /\ st.pc = "history"
            /\ st.errorCount = 2 /\ Len(st.errors) = 2
            /\ st.errors[1].row = 2 /\ st.errors[2].row = 3
            /\ FailedRow(r, 0) /\ FailedRow(r, 1)

(***************************************************************************)
(* C26: the numeric profile fields, under SpecImport.                      *)
(***************************************************************************)
\* the stated parsing: the number of a numeric cell, 0 for any other cell
NumberOrZero(cell) == IF cell = NotANumber THEN 0 ELSE cell

\* row i of request r is complete and valid but for its numeric cells
ValidButForNumbers(r, i) ==
    LET st == imp[r]
        row == Rows(st)[i]
    IN  /\ ~MissingFields(row)
        /\ row.gender \in Genders
        /\ NeedsGeneratedEmail(row)
        /\ st.importer = "uploadStudents" =>
             /\ \A j \in 1 .. Len(Rows(st)) : j # i => Rows(st)[j].rollNumber # row.rollNumber
             /\ \A s \in students : s.src = NoSrc => s.rollNumber # row.rollNumber

\* C26: in every importer monthlyFee and salary (experience is parsed the
\* same way) are stored as the parsed number of a numeric cell and as 0 for a
\* non-numeric cell: no profile holds a not-a-number, and a row that is valid
\* but for its numeric cells has its profile.
C26_NumericFallback ==
    \A r \in ReqIds :
        LET st == imp[r]
        IN  (st.importer \in RowImporters /\ LoopDone(r) /\ ParsedRows(r)) =>
              \A i \in 1 .. Len(Rows(st)) :
                  /\ \A s \in students : s.src = <<r, i>> =>
                        s.monthlyFee = NumberOrZero(Rows(st)[i].monthlyFee)
                  /\ \A p \in staff : p.src = <<r, i>> =>
                        p.salary = NumberOrZero(Rows(st)[i].salary)
                  /\ ValidButForNumbers(r, i) => HasProfile(r, i)

(***************************************************************************)
(* C29: the row numbers of the importers against the file, under SpecParse *)
(***************************************************************************)
\* const rowNum = i + 2, i being the 0-based index of the row in the parsed rows
RowNum(i) == i + 2

\* C29: the row number the importers report for a parsed row is the row's
\* 1-indexed position in the uploaded file (header = row 1), also when the
\* parser skipped empty or instruction rows before it.
C29_PhysicalRowNumber ==
    (out.op = "parseFile" /\ out.stage = "rows") =>
        \A n \in 1 .. Len(out.data) : RowNum(n - 1) = out.dataLine[n]

(***************************************************************************)
(* getTeacherDashboardMetrics (GET /api/dashboard/teacher-metrics).  The   *)
(* Teacher and Salary collections are read, never written.                 *)
(***************************************************************************)
TeacherUsers == {"u1", "u2"}
NoTeacher == [_id |-> <<>>]
NullSalary == [_id |-> "null"]
NotAssigned == "Not assigned"

\* the characters an ObjectId's string ends with, in the order of their codes
IdChars == <<"0", "1", "2", "3", "4", "5", "6", "7", "8", "9", "a", "b", "c", "d", "e", "f">>
CharCode(c) == CHOOSE k \in DOMAIN IdChars : IdChars[k] = c

\* Teacher.findOne({ user: req.user.id })
TeacherFindOne(ps, userId) ==
    IF \E p \in ps : p.kind = "teacher" /\ p.user = userId
    THEN CHOOSE p \in ps : p.kind = "teacher" /\ p.user = userId
    ELSE NoTeacher

\* filter(cls => cls !== 'Not assigned')
Assigned(classes) == SelectSeq(classes, LAMBDA cls : cls # NotAssigned)

\* Salary.find({ staffType: 'teacher' })
TeacherSalaries(ss) == {s \in ss : s.staffType = "teacher"}

\* Salary.findOne({ staffType: 'teacher', teacher }).sort({ month: -1 })
SalaryFindLatest(ss, teacherId) ==
    LET own == {s \in TeacherSalaries(ss) : s.teacher = teacherId}
    IN  IF own = {} THEN NullSalary
        ELSE CHOOSE s \in own : \A o \in own : o.month <= s.month

SampleMonth == 0    \* '05/2023'

SampleSalary(id, teacherId) ==
    [_id |-> id, staffType |-> "teacher", teacher |-> teacherId, month |-> SampleMonth]

\* the object built from the last character of teacher._id
SampleByLastChar(teacherId) ==
    LET lastChar == teacherId[Len(teacherId)]
    IN  IF CharCode(lastChar) >= CharCode("0") /\ CharCode(lastChar) <= CharCode("3")
        THEN SampleSalary("sample-id-paid", teacherId)
        ELSE IF CharCode(lastChar) >= CharCode("4") /\ CharCode(lastChar) <= CharCode("6")
        THEN SampleSalary("sample-id-unpaid", teacherId)
        ELSE IF CharCode(lastChar) >= CharCode("7") /\ CharCode(lastChar) <= CharCode("8")
        THEN SampleSalary("sample-id-partial", teacherId)
        ELSE SampleSalary("sample-id-processing", teacherId)

\* lines 321-413: latestSalary of the full response; findOk says the Salary
\* queries did not throw
LatestSalaryOrSample(ss, teacher, findOk) ==
    IF teacher = NoTeacher THEN NullSalary
    ELSE IF ~findOk THEN SampleSalary("sample-id-error", teacher._id)
    ELSE IF TeacherSalaries(ss) = {} THEN SampleSalary("sample-id-no-records", teacher._id)
    ELSE IF SalaryFindLatest(ss, teacher._id) # NullSalary
    THEN SalaryFindLatest(ss, teacher._id)
    ELSE SampleByLastChar(teacher._id)

Metrics(userId, branch, code, latestSalary) ==
    [op |-> "getTeacherDashboardMetrics", user |-> userId, branch |-> branch,
     code |-> code, latestSalary |-> latestSalary]

\* classes is the classes parameter of the query, <<>> when it is absent or blank
getTeacherDashboardMetrics(userId, classes, findOk) ==
    LET provided == classes # <<>>
        teacher == IF provided THEN NoTeacher ELSE TeacherFindOne(staff, userId)
        classArray == IF provided THEN Assigned(classes)
                      ELSE IF teacher # NoTeacher THEN Assigned(teacher.classes)
                      ELSE <<>>
    IN  /\ out' = IF ~provided /\ teacher = NoTeacher
                  THEN Metrics(userId, "noProfile", 200, NullSalary)
                  ELSE IF classArray = <<>>
                  THEN (IF teacher = NoTeacher
                        THEN Metrics(userId, "noClasses", 200, NullSalary)
                        ELSE IF findOk
                        THEN Metrics(userId, "noClasses", 200,
                                     SalaryFindLatest(salaries, teacher._id))
                        ELSE Metrics(userId, "catch", 500, NullSalary))
                  ELSE Metrics(userId, "metrics", 200,
                               LatestSalaryOrSample(salaries, teacher, findOk))
        /\ UNCHANGED <<now, fees, feeSeq, students, hook, importVars, salaries>>

\* the stores the endpoint is asked on
TeacherIds == {<<"t", "2">>, <<"t", "5">>, <<"t", "8">>, <<"t", "c">>}
ClassLists == {<<>>, <<NotAssigned>>, <<"5A">>}
TeacherDocs ==
    [kind : {"teacher"}, _id : TeacherIds, user : {"u1"}, classes : ClassLists]
SalaryDocs ==
    {[_id |-> "sal1", staffType |-> "teacher", teacher |-> <<"t", "2">>, month |-> 1],
     [_id |-> "sal2", staffType |-> "teacher", teacher |-> <<"t", "2">>, month |-> 2],
     [_id |-> "sal3", staffType |-> "teacher", teacher |-> <<"t", "9">>, month |-> 1],
     [_id |-> "sal4", staffType |-> "support-staff", teacher |-> <<>>, month |-> 2]}

InitDashboard ==
    /\ now = (CutoverMonth + 1) * PosPerMonth
    /\ fees = {}
    /\ feeSeq = 0
    /\ students = {}
    /\ hook = NoHook
    /\ out = NoOut
    /\ imp = [r \in ReqIds |-> IdleReq]
    /\ users = {}
    /\ history = <<>>
    /\ files = {}
    /\ proc = "up"
    /\ \E p \in TeacherDocs : staff = {p}
    /\ salaries \in SUBSET SalaryDocs

NextDashboard ==
    \E userId \in TeacherUsers, classes \in ClassLists, findOk \in BOOLEAN :
        getTeacherDashboardMetrics(userId, classes, findOk)

SpecDashboard == InitDashboard /\ [][NextDashboard]_vars

\* C30: in every response of getTeacherDashboardMetrics latestSalary is null
\* or a Salary record stored for the requesting teacher, also when the
\* teacher has no salary record and when the salary lookup fails.
C30_NoInventedSalary ==
    (out.op = "getTeacherDashboardMetrics" /\ out.code = 200) =>
        \/ out.latestSalary = NullSalary
        \/ /\ out.latestSalary \in salaries
           /\ out.latestSalary.teacher = TeacherFindOne(staff, out.user)._id

(***************************************************************************)
(* Reading and deleting fee records: GET /api/fees, GET /api/fees/:id,     *)
(* DELETE /api/fees/:id and DELETE /api/fees/cleanup-orphaned.             *)
(***************************************************************************)
\* req.user as the protect middleware supplies it
Requesters ==
    {[id |-> "s1", role |-> "student"], [id |-> "s2", role |-> "student"],
     [id |-> "admin1", role |-> "admin"], [id |-> "p1", role |-> "principal"],
     [id |-> "t1", role |-> "teacher"]}

\* authorize(...roles): the request goes on only for one of the roles
authorize(user, roles) == user.role \in roles

NoParam == ""     \* a parameter the request does not carry
NoStudent == [id |-> NoParam]

\* Student.findOne({ user: req.user.id })
StudentOfUser(ss, userId) ==
    IF \E s \in ss : s.user = userId THEN CHOOSE s \in ss : s.user = userId ELSE NoStudent

\* populate('student'): the referenced document, null when it is gone
Populated(ss, f) ==
    IF \E s \in ss : s.id = f.student THEN CHOOSE s \in ss : s.id = f.student ELSE NoStudent

\* the student conditions of reqQuery before the role is looked at: the legacy
\* student parameter is copied with req.query, studentId gives student or $or
QueryOfParams(q) ==
    [student |-> IF Len(q.studentId) = 1 THEN q.studentId[1] ELSE q.student,
     or |-> IF Len(q.studentId) > 1 THEN {q.studentId[k] : k \in 1 .. Len(q.studentId)}
            ELSE {}]

\* a variant in which a student parameter of the request outlives the role filter
OwnRecordsUnlessAsked(reqQuery, own) ==
    IF reqQuery.student = NoParam THEN [reqQuery EXCEPT !.student = own.id] ELSE reqQuery

\* if (req.user.role === 'student') reqQuery.student = student._id
OwnRecordsOnly(reqQuery, own) == [reqQuery EXCEPT !.student = own.id]

\* Fee.find(reqQuery)
FeeFind(fs, reqQuery) ==
    {f \in fs : /\ reqQuery.student # NoParam => f.student = reqQuery.student
                /\ reqQuery.or # {} => f.student \in reqQuery.or}

getFeeRecords(user, q) ==
    LET own == StudentOfUser(students, user.id)
        reqQuery == IF user.role = "student" THEN OwnRecordsOnly(QueryOfParams(q), own)
                    ELSE QueryOfParams(q)
    IN  /\ out' = IF user.role = "student" /\ own = NoStudent
                  THEN [op |-> "getFeeRecords", user |-> user, code |-> 404, data |-> {}]
                  ELSE [op |-> "getFeeRecords", user |-> user, code |-> 200,
                        data |-> FeeFind(fees, reqQuery)]
        /\ hook' = NoHook
        /\ UNCHANGED <<now, fees, feeSeq, students, importVars, salaries>>

\* the answer for a student: no profile 403, then fee.student._id of a
\* reference that populate left null throws and the catch answers 400
StudentMayRead(f, own) ==
    IF own = NoStudent THEN 403
    ELSE IF Populated(students, f) = NoStudent THEN 400
    ELSE IF f.student # own.id THEN 403
    ELSE 200

getFeeRecord(user, id) ==
    LET own == StudentOfUser(students, user.id)
        found == {f \in fees : f.id = id}
        code == IF found = {} THEN 404
                ELSE IF user.role = "student"
                THEN StudentMayRead(CHOOSE f \in found : TRUE, own)
                ELSE 200
    IN  /\ out' = [op |-> "getFeeRecord", user |-> user, fee |-> id, code |-> code,
                   data |-> IF code = 200 THEN found ELSE {}]
        /\ hook' = NoHook
        /\ UNCHANGED <<now, fees, feeSeq, students, importVars, salaries>>

deleteFeeRecord(user, id) ==
    LET found == {f \in fees : f.id = id}
        code == IF ~authorize(user, {"admin", "principal"}) THEN 403
                ELSE IF found = {} THEN 404
                ELSE IF /\ (CHOOSE f \in found : TRUE).recordedBy # user.id
                        /\ user.role # "admin" /\ user.role # "principal"
                THEN 401
                ELSE 200
    IN  /\ fees' = IF code = 200 THEN fees \ found ELSE fees
        /\ out' = [op |-> "deleteFeeRecord", user |-> user, fee |-> id, code |-> code]
        /\ hook' = NoHook
        /\ UNCHANGED <<now, feeSeq, students, importVars, salaries>>

\* a variant that takes only the fees of missing students for orphaned
OrphanedIfMissing(ss, f) == Populated(ss, f) = NoStudent

\* !fee.student || fee.student.isActive === false
OrphanedFee(ss, f) ==
    Populated(ss, f) = NoStudent \/ Populated(ss, f).isActive = FALSE

cleanupOrphanedFees(user) ==
    LET allowed == /\ authorize(user, {"admin", "principal"})
                   /\ ~(user.role # "admin" /\ user.role # "principal")
        orphanedFees == {f \in fees : OrphanedFee(students, f)}
    IN  /\ fees' = IF allowed THEN fees \ orphanedFees ELSE fees
        /\ out' = [op |-> "cleanupOrphanedFees", user |-> user,
                   code |-> IF allowed THEN 200 ELSE 403,
                   orphanedFeeIds |-> IF allowed THEN {f.id : f \in orphanedFees} ELSE {}]
        /\ hook' = NoHook
        /\ UNCHANGED <<now, feeSeq, students, importVars, salaries>>

\* the stores of this specification: s1 is an active student, s2 is active,
\* inactive or gone, s3 is gone; every fee was recorded by admin1 or by t1
AccessInstant == (CutoverMonth + 1) * PosPerMonth

AccessFee(id, studentId, recordedBy) ==
    NewFee(id, [student |-> studentId, feeType |-> "tuition", amount |-> 1000,
                dueDate |-> EndOfMonth(AccessInstant), status |-> NoStatus,
                paidAmount |-> NA, arrears |-> NA, recordedBy |-> recordedBy])

AccessFees ==
    {AccessFee(1, "s1", "admin1"), AccessFee(2, "s2", "t1"), AccessFee(3, "s3", "admin1")}

AccessStudents ==
    {FeeStudents \ {s \in FeeStudents : s.id = "s2"},
     FeeStudents,
     {IF s.id = "s2" THEN [s EXCEPT !.isActive = FALSE] ELSE s : s \in FeeStudents}}

FeeQueries == [studentId : {<<>>, <<"s2">>, <<"s1", "s2">>}, student : {NoParam, "s2"}]

PaymentBody == [amount |-> NA, paidAmount |-> 400, status |-> NoStatus, dueDate |-> NoDate]

InitAccess ==
    /\ now = AccessInstant
    /\ fees \in SUBSET AccessFees
    /\ feeSeq = Cardinality(AccessFees)
    /\ salaries = {}
    /\ students \in AccessStudents
    /\ hook = NoHook
    /\ out = NoOut
    /\ NoImports

NextAccess ==
    \/ \E user \in Requesters, q \in FeeQueries : getFeeRecords(user, q)
    \/ \E user \in Requesters, id \in 1 .. Cardinality(AccessFees) : getFeeRecord(user, id)
    \/ \E user \in Requesters, id \in 1 .. Cardinality(AccessFees) : deleteFeeRecord(user, id)
    \/ \E user \in Requesters : cleanupOrphanedFees(user)
    \/ \E id \in 1 .. Cardinality(AccessFees) : updateFeeRecord(id, PaymentBody)

SpecAccess == InitAccess /\ [][NextAccess]_vars

(***************************************************************************)
(* C22: what a student reads, under SpecAccess.                            *)
(***************************************************************************)
\* the last answer went to a requester with role 'student'
AnsweredStudent == out.op \in {"getFeeRecords", "getFeeRecord"} /\ out.user.role = "student"

\* the Student profile of the requester of the last answer
OwnProfile == StudentOfUser(students, out.user.id)

\* the last request named a stored record that is not the requester's own
ForeignRecord(f) ==
    /\ out.op = "getFeeRecord" /\ f \in fees /\ f.id = out.fee
    /\ f.student # OwnProfile.id

\* every record of the last answer belongs to the requester's profile, and a
\* requester without a profile got none
OwnRecordsAnswered ==
    /\ \A f \in out.data : OwnProfile # NoStudent /\ f.student = OwnProfile.id
    /\ OwnProfile = NoStudent => out.data = {}

\* C22 as stated: a student obtains through getFeeRecords and getFeeRecord
\* only records of the own Student profile, whatever studentId and student
\* parameters are sent; a foreign record id is answered with 403, and a
\* requester without a profile gets no records.
C22_AsStated ==
    AnsweredStudent =>
        /\ OwnRecordsAnswered
        /\ \A f \in fees : ForeignRecord(f) => out.code = 403

\* C22 amended: the same, but a foreign record whose student no longer exists
\* is answered with 400 when the requester has a profile; a foreign record is
\* never returned.
C22_OwnFeesOnly ==
    AnsweredStudent =>
        /\ OwnRecordsAnswered
        /\ \A f \in fees : ForeignRecord(f) =>
              /\ out.data = {}
              /\ out.code = IF OwnProfile # NoStudent /\ ~StudentExists(f.student)
                            THEN 400 ELSE 403

\* s1 asked for the records of s1 and s2 and got the own record only, while a
\* record of s2 is stored
C22_Witness ==
    /\ AnsweredStudent /\ out.op = "getFeeRecords" /\ out.user.id = "s1"
    /\ out.code = 200
    /\ \E f \in out.data : f.student = "s1"
    /\ \E f \in fees : f.student = "s2"
    /\ \A f \in out.data : f.student = "s1"

(***************************************************************************)
(* C27: hard deletion of fee records, under SpecAccess.                    *)
(***************************************************************************)
\* the student of f no longer exists or is inactive
StudentGoneOrInactive(f) == ~\E s \in students : s.id = f.student /\ s.isActive

AdminOrPrincipal(user) == user.role \in {"admin", "principal"}

\* the step removed the record f from the store
HardDeleted(f) == f \in fees /\ ~\E g \in fees' : g.id = f.id

\* C27: a fee record leaves the store only by deleteFeeRecord, asked by an
\* admin, a principal or the record's creator, or by cleanupOrphanedFees;
\* cleanupOrphanedFees acts for admin and principal only and deletes exactly
\* the records whose student no longer exists or is inactive, leaving every
\* other record unchanged.
C27_DeletionFrame ==
    [][/\ \A f \in fees : HardDeleted(f) =>
             \/ /\ out'.op = "deleteFeeRecord" /\ out'.fee = f.id
                /\ AdminOrPrincipal(out'.user) \/ out'.user.id = f.recordedBy
             \/ /\ out'.op = "cleanupOrphanedFees" /\ AdminOrPrincipal(out'.user)
       /\ out'.op = "cleanupOrphanedFees" =>
             fees' = IF AdminOrPrincipal(out'.user)
                     THEN {f \in fees : ~StudentGoneOrInactive(f)}
                     ELSE fees]_vars

\* a cleanup by an admin removed the records of the inactive s2 and of the
\* missing s3 and left the record of s1
C27_Witness ==
    /\ out.op = "cleanupOrphanedFees" /\ out.code = 200
    /\ out.orphanedFeeIds = {2, 3}
    /\ \E s \in students : s.id = "s2" /\ ~s.isActive
    /\ \E f \in fees : f.id = 1
    /\ \A f \in fees : f.student = "s1"

====
